---- MODULE Spec2Model ----
(***************************************************************************)
(* Model of the Owlanter script synchronisation engine                     *)
(* (src/core/script-sync.ts, src/core/metadata-parser.ts, site-manager.ts).*)
(*                                                                         *)
(* Text is modelled structurally.  A string is a sequence of characters;   *)
(* a file text (and a script body) is the sequence of its lines, i.e. the  *)
(* result of split('\n'), so the empty string is << <<>> >>.  The literal  *)
(* "// @pleasanter-", the metadata keys, "true", "false", "undefined",     *)
(* "new" and the file extensions are single characters of the alphabet.    *)
(* A JavaScript object is a record whose DOMAIN is the set of properties   *)
(* it has; an undefined property is an absent field.                       *)
(***************************************************************************)
EXTENDS Integers, Sequences, FiniteSets, TLC

(***************************** bounds **************************************)
\* largest script id the remote store hands out in the model
MaxId == 3
\* number of operations and outside changes in one behaviour; each takes
\* the clock one tick further
MaxClock == 4

(***************************** strings *************************************)
HDR == "// @pleasanter-"

Digits == <<"0", "1", "2", "3", "4", "5", "6", "7", "8", "9">>

IsWs(c) == c \in {" ", "\t"}

IsDigit(c) == \E i \in 1..10 : Digits[i] = c

DigitVal(c) == (CHOOSE i \in 1..10 : Digits[i] = c) - 1

RECURSIVE NumToStr(_)
\* `${n}` for a non-negative integer
NumToStr(n) ==
  IF n < 10 THEN <<Digits[n + 1]>>
  ELSE NumToStr(n \div 10) \o <<Digits[(n % 10) + 1]>>

IsNumStr(s) == Len(s) > 0 /\ \A i \in 1..Len(s) : IsDigit(s[i])

RECURSIVE StrToNum(_)
\* Number(s) for a string of decimal digits
StrToNum(s) ==
  IF Len(s) = 0 THEN 0
  ELSE 10 * StrToNum(SubSeq(s, 1, Len(s) - 1)) + DigitVal(s[Len(s)])

RECURSIVE TrimLeft(_)
TrimLeft(s) ==
  IF Len(s) > 0 /\ IsWs(s[1]) THEN TrimLeft(Tail(s)) ELSE s

RECURSIVE TrimRight(_)
TrimRight(s) ==
  IF Len(s) > 0 /\ IsWs(s[Len(s)]) THEN TrimRight(SubSeq(s, 1, Len(s) - 1)) ELSE s

\* String.prototype.trim on a single line
Trim(s) == TrimRight(TrimLeft(s))

RECURSIVE DropBlankHead(_)
DropBlankHead(ls) ==
  IF Len(ls) > 0 /\ Trim(ls[1]) = <<>> THEN DropBlankHead(Tail(ls)) ELSE ls

RECURSIVE DropBlankTail(_)
DropBlankTail(ls) ==
  IF Len(ls) > 0 /\ Trim(ls[Len(ls)]) = <<>>
  THEN DropBlankTail(SubSeq(ls, 1, Len(ls) - 1)) ELSE ls

\* lines.join('\n').trim(), again as a sequence of lines
TrimText(ls) ==
  LET core == DropBlankTail(DropBlankHead(ls)) IN
  IF Len(core) = 0 THEN << <<>> >>
  ELSE IF Len(core) = 1 THEN << Trim(core[1]) >>
  ELSE << TrimLeft(core[1]) >> \o SubSeq(core, 2, Len(core) - 1)
       \o << TrimRight(core[Len(core)]) >>

(***************************** sentinels ***********************************)
\* script.id === null in LocalServerScript / LocalClientScript
NullId == -1
\* Number(x) that is NaN
NaN == -2

(************************ metadata parser **********************************)
\* MetadataParser.parseValue: 'true'/'false' -> boolean, numeric -> number,
\* anything else stays a string.  The value keeps its text in s.
parseValue(value) ==
  IF value = <<"true">> \/ value = <<"false">> THEN [t |-> "bool", s |-> value]
  ELSE IF IsNumStr(value) THEN [t |-> "num", s |-> value]
  ELSE [t |-> "str", s |-> value]

\* Boolean(v) of a parsed value (a parsed string is never empty)
BooleanOf(v) ==
  IF v.t = "bool" THEN v.s = <<"true">>
  ELSE IF v.t = "num" THEN StrToNum(v.s) # 0
  ELSE TRUE

\* Number(v) of a parsed value
NumberOf(v) ==
  IF v.t = "bool" THEN (IF v.s = <<"true">> THEN 1 ELSE 0)
  ELSE IF v.t = "num" THEN StrToNum(v.s)
  ELSE NaN

\* String(v): the text a parsed value is sent as
TextOf(v) == IF v.t = "num" THEN NumToStr(StrToNum(v.s)) ELSE v.s

\* index of the first ":" of a trimmed line, 0 when there is none
FirstColon(t) ==
  IF \E i \in 1..Len(t) : t[i] = ":"
  THEN CHOOSE i \in 1..Len(t) : t[i] = ":" /\ \A j \in 1..(i - 1) : t[j] # ":"
  ELSE 0

\* trimmed.match(/\/\/ @pleasanter-([^:]+):\s*(.+)/) for a line that starts
\* with the prefix: the key is everything up to the first colon
HeaderMatches(t) ==
  /\ FirstColon(t) > 2
  /\ Len(TrimLeft(SubSeq(t, FirstColon(t) + 1, Len(t)))) > 0

HeaderKey(t) == SubSeq(t, 2, FirstColon(t) - 1)

HeaderValue(t) == Trim(SubSeq(t, FirstColon(t) + 1, Len(t)))

RECURSIVE parseLines(_, _, _, _)
\* the loop of MetadataParser.parseFile over lines[i..]
parseLines(lines, inMetadata, metadata, bodyLines) ==
  IF Len(lines) = 0 THEN [metadata |-> metadata, bodyLines |-> bodyLines]
  ELSE
    LET line == Head(lines)
        trimmed == Trim(line)
    IN
    IF inMetadata /\ Len(trimmed) > 0 /\ trimmed[1] = HDR THEN
      parseLines(Tail(lines), inMetadata,
                 IF HeaderMatches(trimmed)
                 THEN (HeaderKey(trimmed) :> parseValue(HeaderValue(trimmed))) @@ metadata
                 ELSE metadata,
                 bodyLines)
    ELSE IF trimmed = <<>> /\ inMetadata THEN
      parseLines(Tail(lines), inMetadata, metadata, bodyLines)
    ELSE
      parseLines(Tail(lines), FALSE, metadata, Append(bodyLines, line))

\* MetadataParser.parseFile applied to the text of a file
parseFile(content) ==
  LET r == parseLines(content, TRUE, <<>>, <<>>) IN
  [metadata |-> r.metadata, body |-> TrimText(r.bodyLines)]

(************************ flag tables **************************************)
\* metadata key, ServerScript property and alternative remote property, in
\* the order of generateServerScriptMetadata / serverFlagMap
ServerFlagTable == <<
  [meta |-> "when-loading-site-settings", api |-> "ServerScriptWhenloadingSiteSettings", alt |-> "WhenLoadingSiteSettings"],
  [meta |-> "when-view-processing", api |-> "ServerScriptWhenViewProcessing", alt |-> "WhenViewProcessing"],
  [meta |-> "when-loading-record", api |-> "ServerScriptWhenloadingRecord", alt |-> "WhenLoadingRecord"],
  [meta |-> "before-formula", api |-> "ServerScriptBeforeFormula", alt |-> "BeforeFormula"],
  [meta |-> "after-formula", api |-> "ServerScriptAfterFormula", alt |-> "AfterFormula"],
  [meta |-> "before-create", api |-> "ServerScriptBeforeCreate", alt |-> "BeforeCreate"],
  [meta |-> "after-create", api |-> "ServerScriptAfterCreate", alt |-> "AfterCreate"],
  [meta |-> "before-update", api |-> "ServerScriptBeforeUpdate", alt |-> "BeforeUpdate"],
  [meta |-> "after-update", api |-> "ServerScriptAfterUpdate", alt |-> "AfterUpdate"],
  [meta |-> "before-delete", api |-> "ServerScriptBeforeDelete", alt |-> "BeforeDelete"],
  [meta |-> "after-delete", api |-> "ServerScriptAfterDelete", alt |-> "AfterDelete"],
  [meta |-> "before-bulk-delete", api |-> "ServerScriptBeforeBulkDelete", alt |-> "BeforeBulkDelete"],
  [meta |-> "after-bulk-delete", api |-> "ServerScriptAfterBulkDelete", alt |-> "AfterBulkDelete"],
  [meta |-> "before-opening-page", api |-> "ServerScriptBeforeOpeningPage", alt |-> "BeforeOpeningPage"],
  [meta |-> "before-opening-row", api |-> "ServerScriptBeforeOpeningRow", alt |-> "BeforeOpeningRow"],
  [meta |-> "shared", api |-> "ServerScriptShared", alt |-> "Shared"] >>

\* flagMap of parseClientScript
ClientFlagTable == <<
  [meta |-> "disabled", api |-> "Disabled", alt |-> "Disabled"],
  [meta |-> "all", api |-> "ScriptAll", alt |-> "All"],
  [meta |-> "new", api |-> "ScriptNew", alt |-> "New"],
  [meta |-> "edit", api |-> "ScriptEdit", alt |-> "Edit"],
  [meta |-> "index", api |-> "ScriptIndex", alt |-> "Index"] >>

ServerTriggerKeys == { ServerFlagTable[i].api : i \in 1..Len(ServerFlagTable) }

\* every boolean flag of a ServerScript
ServerFlagKeys == ServerTriggerKeys \cup {"Functionalize", "TryCatch"}

\* every boolean flag of a client Script
ClientFlagKeys == { ClientFlagTable[i].api : i \in 1..Len(ClientFlagTable) }

\* a JavaScript object property: does obj have it, and its value
Has(obj, k) == k \in DOMAIN obj

\* obj with property k set to v
With(obj, k, v) == (k :> v) @@ obj

\* truthiness of a boolean property that may be absent
Truthy(obj, k) == Has(obj, k) /\ obj[k]

(************************ metadata generator *******************************)
HeaderLine(key, value) == <<HDR, key, ":", " ">> \o value

\* `${script.Id}`
IdText(script) == IF Has(script, "Id") THEN NumToStr(script.Id) ELSE <<"undefined">>

\* `${b}` for a boolean property
BoolText(script, k) ==
  IF ~Has(script, k) THEN <<"undefined">>
  ELSE IF script[k] THEN <<"true">> ELSE <<"false">>

\* the hook lines of generateServerScriptMetadata, in table order
HookLines(script) ==
  LET RECURSIVE from(_)
      from(i) ==
        IF i > Len(ServerFlagTable) THEN <<>>
        ELSE (IF Truthy(script, ServerFlagTable[i].api)
              THEN << HeaderLine(ServerFlagTable[i].meta, <<"true">>) >>
              ELSE <<>>) \o from(i + 1)
  IN from(1)

\* MetadataParser.generateServerScriptMetadata, as lines
generateServerScriptMetadata(script) ==
  << HeaderLine("id", IdText(script)),
     HeaderLine("title", script.Title),
     HeaderLine("name", script.Name) >> \o HookLines(script)

\* MetadataParser.generateScriptMetadata, as lines
generateScriptMetadata(script) ==
  << HeaderLine("id", IdText(script)),
     HeaderLine("title", script.Title),
     HeaderLine("all", BoolText(script, "ScriptAll")),
     HeaderLine("new", BoolText(script, "ScriptNew")),
     HeaderLine("edit", BoolText(script, "ScriptEdit")),
     HeaderLine("index", BoolText(script, "ScriptIndex")),
     HeaderLine("disabled", BoolText(script, "Disabled")) >>

\* content written by MetadataParser.writeServerScriptFile:
\* `${metadata}\n\n${script.Body}`
serverScriptContent(script) ==
  generateServerScriptMetadata(script) \o << <<>> >> \o script.Body

\* content written by MetadataParser.writeScriptFile
scriptContent(script) ==
  generateScriptMetadata(script) \o << <<>> >> \o script.Body

(************************ normalisation ************************************)
\* toBool(source, keys): the first key the source has decides
toBool(source, keys) ==
  LET RECURSIVE scan(_)
      scan(i) ==
        IF i > Len(keys) THEN FALSE
        ELSE IF Has(source, keys[i]) THEN source[keys[i]]
        ELSE scan(i + 1)
  IN scan(1)

\* the remote property names toBool is given for a ServerScript flag
ServerFlagSources(k) ==
  IF k = "Functionalize" THEN <<"Functionalize">>
  ELSE IF k = "TryCatch" THEN <<"TryCatch", "Trycatch">>
  ELSE LET e == CHOOSE i \in 1..Len(ServerFlagTable) : ServerFlagTable[i].api = k
       IN <<ServerFlagTable[e].api, ServerFlagTable[e].alt>>

\* the remote property names toBool is given for a client Script flag
ClientFlagSources(k) ==
  IF k = "Disabled" THEN <<"Disabled">>
  ELSE LET e == CHOOSE i \in 1..Len(ClientFlagTable) : ClientFlagTable[i].api = k
       IN <<ClientFlagTable[e].api, ClientFlagTable[e].alt>>

\* obj without property k
Without(obj, k) == [x \in (DOMAIN obj) \ {k} |-> obj[x]]

\* the Id property: toNumberOrUndefined(raw.Id ?? raw.ID) leaves it out
\* when the remote record has none
IdPart(raw) ==
  IF Has(raw, "Id") THEN [Id |-> raw.Id]
  ELSE IF Has(raw, "ID") THEN [Id |-> raw.ID]
  ELSE <<>>

\* a normalisation that looks for functionalize under another name
normalizeServerScriptLowerCase(raw) ==
  [k \in ServerFlagKeys |->
     IF k = "Functionalize" THEN toBool(raw, <<"functionalize">>)
     ELSE toBool(raw, ServerFlagSources(k))]
  @@ [Title |-> IF Has(raw, "Title") THEN raw.Title
                ELSE IF Has(raw, "Name") THEN raw.Name ELSE <<>>,
      Name  |-> IF Has(raw, "Name") THEN raw.Name
                ELSE IF Has(raw, "Title") THEN raw.Title ELSE <<>>,
      Body  |-> IF Has(raw, "Body") THEN raw.Body ELSE << <<>> >>]
  @@ IdPart(raw)

\* ScriptSynchronizer.normalizeServerScript
normalizeServerScript(raw) ==
  [k \in ServerFlagKeys |-> toBool(raw, ServerFlagSources(k))]
  @@ [Title |-> IF Has(raw, "Title") THEN raw.Title
                ELSE IF Has(raw, "Name") THEN raw.Name ELSE <<>>,
      Name  |-> IF Has(raw, "Name") THEN raw.Name
                ELSE IF Has(raw, "Title") THEN raw.Title ELSE <<>>,
      Body  |-> IF Has(raw, "Body") THEN raw.Body ELSE << <<>> >>]
  @@ IdPart(raw)

\* ScriptSynchronizer.normalizeClientScript
normalizeClientScript(raw) ==
  [k \in ClientFlagKeys |-> toBool(raw, ClientFlagSources(k))]
  @@ [Title |-> IF Has(raw, "Title") THEN raw.Title ELSE <<>>,
      Body  |-> IF Has(raw, "Body") THEN raw.Body ELSE << <<>> >>]
  @@ IdPart(raw)

\* normalizeServerScripts / normalizeClientScripts: map over the site data
normalizeServerScripts(siteData) ==
  [i \in 1..Len(siteData.ServerScripts) |-> normalizeServerScript(siteData.ServerScripts[i])]

normalizeClientScripts(siteData) ==
  [i \in 1..Len(siteData.Scripts) |-> normalizeClientScript(siteData.Scripts[i])]

(************************ file names ***************************************)
\* .slice(0, 60) of sanitizeFileName
MaxFileTitleLen == 60

HostileChars == {"\\", "/", ":", "*", "?", "\"", "<", ">", "|"}

RECURSIVE CollapseRuns(_, _)
\* replace every maximal run of characters satisfying the class by one "_"
CollapseRuns(s, class) ==
  IF Len(s) = 0 THEN <<>>
  ELSE IF s[1] \in class THEN
    IF Len(s) > 1 /\ s[2] \in class THEN CollapseRuns(Tail(s), class)
    ELSE <<"_">> \o CollapseRuns(Tail(s), class)
  ELSE <<s[1]>> \o CollapseRuns(Tail(s), class)

RECURSIVE StripUnderscores(_)
StripUnderscores(s) ==
  IF Len(s) > 0 /\ s[1] = "_" THEN StripUnderscores(Tail(s))
  ELSE IF Len(s) > 0 /\ s[Len(s)] = "_" THEN StripUnderscores(SubSeq(s, 1, Len(s) - 1))
  ELSE s

\* sanitizeFileName
sanitizeFileName(value) ==
  LET a == [i \in 1..Len(value) |-> IF value[i] \in HostileChars THEN "_" ELSE value[i]]
      b == CollapseRuns(a, {" ", "\t"})
      c == CollapseRuns(b, {"_"})
      d == StripUnderscores(c)
      e == SubSeq(d, 1, IF Len(d) < MaxFileTitleLen THEN Len(d) ELSE MaxFileTitleLen)
  IN IF Len(e) = 0 THEN <<"script">> ELSE e

\* `${script.Id ?? 'new'}_${sanitizeFileName(script.Title ?? ...)}.js`
scriptFileName(script) ==
  (IF Has(script, "Id") THEN NumToStr(script.Id) ELSE <<"new">>)
  \o <<"_">> \o sanitizeFileName(script.Title) \o <<".js">>

\* characters of the alphabet that contain a dot
DotChars == {".", ".js", ".JS", ".txt"}

\* entry.name.toLowerCase().endsWith('.js')
EndsWithJs(name) == Len(name) > 0 /\ name[Len(name)] \in {".js", ".JS"}

\* length of the leading run of digits of a name
DigitRun(name) ==
  IF Len(name) > 0 /\ IsDigit(name[1])
  THEN CHOOSE n \in 1..Len(name) :
         /\ \A i \in 1..n : IsDigit(name[i])
         /\ (n = Len(name) \/ ~IsDigit(name[n + 1]))
  ELSE 0

\* fileName.match(/^(\d+)_([^.]*)/) succeeds
NameMatches(name) ==
  DigitRun(name) > 0 /\ DigitRun(name) < Len(name) /\ name[DigitRun(name) + 1] = "_"

\* Number(match[1])
InferredId(name) == StrToNum(SubSeq(name, 1, DigitRun(name)))

\* index of the first dot at or after position i, Len + 1 when there is none
FirstDotFrom(name, i) ==
  IF \E j \in i..Len(name) : name[j] \in DotChars
  THEN CHOOSE j \in i..Len(name) :
         name[j] \in DotChars /\ \A h \in i..(j - 1) : name[h] \notin DotChars
  ELSE Len(name) + 1

\* path.basename(filePath, path.extname(filePath))
BaseWithoutExt(name) ==
  IF \E j \in 2..Len(name) : name[j] \in DotChars
  THEN SubSeq(name, 1, (CHOOSE j \in 2..Len(name) :
                          name[j] \in DotChars
                          /\ \A h \in (j + 1)..Len(name) : name[h] \notin DotChars) - 1)
  ELSE name

\* a title that leaves out what precedes the first underscore of any name
InferredTitleAfterUnderscore(name) ==
  IF \E i \in 1..Len(name) : name[i] = "_"
  THEN LET u == CHOOSE i \in 1..Len(name) :
                  name[i] = "_" /\ \A h \in 1..(i - 1) : name[h] # "_"
       IN SubSeq(name, u + 1, FirstDotFrom(name, u + 1) - 1)
  ELSE BaseWithoutExt(name)

\* match ? match[2] : basename without extension
InferredTitle(name) ==
  IF NameMatches(name)
  THEN SubSeq(name, DigitRun(name) + 2, FirstDotFrom(name, DigitRun(name) + 2) - 1)
  ELSE BaseWithoutExt(name)

(************************ local script repository **************************)
\* an id taken from the file name before the header is looked at
ResolvedIdNameFirst(metadata, name, base) ==
  IF NameMatches(name) THEN InferredId(name)
  ELSE IF Has(metadata, <<"id">>) THEN
    (IF NumberOf(metadata[<<"id">>]) = NaN THEN NullId
     ELSE NumberOf(metadata[<<"id">>]))
  ELSE NullId

\* metadata.id !== undefined ? Number(metadata.id) : undefined, then
\* toNumberOrUndefined(metadataId ?? inferredId ?? script.Id); NullId when
\* the result is undefined.  A NaN metadata id is not nullish, so it hides
\* the file-name id.
ResolvedId(metadata, name, base) ==
  IF Has(metadata, <<"id">>) THEN
    (IF NumberOf(metadata[<<"id">>]) = NaN THEN NullId
     ELSE NumberOf(metadata[<<"id">>]))
  ELSE IF NameMatches(name) THEN InferredId(name)
  ELSE IF Has(base, "Id") THEN base.Id
  ELSE NullId

\* the flag assignments of parseServerScript / parseClientScript: every
\* table key the metadata has overrides the property
RECURSIVE ApplyFlags(_, _, _, _)
ApplyFlags(script, metadata, table, i) ==
  IF i > Len(table) THEN script
  ELSE ApplyFlags(
         IF Has(metadata, <<table[i].meta>>)
         THEN With(script, table[i].api, BooleanOf(metadata[<<table[i].meta>>]))
         ELSE script,
         metadata, table, i + 1)

\* existingMap?.get(inferredId): the snapshot record the file is layered on
ExistingFor(name, existingMap) ==
  IF NameMatches(name) /\ InferredId(name) \in DOMAIN existingMap
  THEN existingMap[InferredId(name)]
  ELSE <<>>

\* script.Id = toNumberOrUndefined(...): the property is left out when
\* the id is undefined
SetId(script, id) ==
  IF id = NullId THEN Without(script, "Id") ELSE With(script, "Id", id)

\* metaValue ?? script[prop] ?? fallback
TextField(metadata, key, script, prop, fallback) ==
  IF Has(metadata, <<key>>) THEN TextOf(metadata[<<key>>])
  ELSE IF Has(script, prop) THEN script[prop]
  ELSE fallback

\* script.Title = metaTitle ?? script.Title ?? inferredTitle
WithTitle(script, metadata, name) ==
  With(script, "Title",
       TextField(metadata, "title", script, "Title", InferredTitle(name)))

\* script.Name = metaName ?? script.Name ?? script.Title ?? inferredTitle
WithName(script, metadata) ==
  With(script, "Name", TextField(metadata, "name", script, "Name", script.Title))

\* a flag that is off unless the header turns it on
SetFlagAlways(script, metadata, key, prop) ==
  With(script, prop, Has(metadata, <<key>>) /\ BooleanOf(metadata[<<key>>]))

\* if (key in metadata) script[prop] = Boolean(metadata[key])
SetFlagIf(script, metadata, key, prop) ==
  IF Has(metadata, <<key>>) THEN With(script, prop, BooleanOf(metadata[<<key>>]))
  ELSE script

\* the LocalServerScript / LocalClientScript returned for a file
LocalScript(name, script) ==
  [id |-> IF Has(script, "Id") THEN script.Id ELSE NullId,
   title |-> script.Title, filePath |-> name, script |-> script]

\* parseServerScript once the file is parsed and the snapshot record found
ParsedServerScript(name, parsed, base) ==
  LocalScript(name,
    SetFlagIf(
      SetFlagIf(
        ApplyFlags(
          WithName(
            WithTitle(
              SetId(With(base, "Body", parsed.body),
                    ResolvedId(parsed.metadata, name, base)),
              parsed.metadata, name),
            parsed.metadata),
          parsed.metadata, ServerFlagTable, 1),
        parsed.metadata, "functionalize", "Functionalize"),
      parsed.metadata, "try-catch", "TryCatch"))

\* ScriptSynchronizer.parseServerScript on a file name and its text
parseServerScript(name, content, existingMap) ==
  ParsedServerScript(name, parseFile(content), ExistingFor(name, existingMap))

\* parseClientScript once the file is parsed and the snapshot record found
ParsedClientScript(name, parsed, base) ==
  LocalScript(name,
    ApplyFlags(
      WithTitle(
        SetId(With(base, "Body", parsed.body),
              ResolvedId(parsed.metadata, name, base)),
        parsed.metadata, name),
      parsed.metadata, ClientFlagTable, 1))

\* ScriptSynchronizer.parseClientScript on a file name and its text
parseClientScript(name, content, existingMap) ==
  ParsedClientScript(name, parseFile(content), ExistingFor(name, existingMap))

(************************ state ********************************************)
VARIABLES
  remote,        \* site data held by the remote script store
  serverDir,     \* server-script directory: entry name -> [kind, text]
  clientDir,     \* client-script directory: entry name -> [kind, text]
  snapshot,      \* site-setting.json: <<>> when missing, else <<siteData>>
  siteInfo,      \* site-info.json of the site
  lastSync,      \* the site's last-sync in the sites configuration
  clock,         \* the time, as new Date().toISOString() gives it
  pc,            \* position of the pull in progress, "idle" when none
  pullData,      \* siteData fetched by the pull in progress
  writtenServer, \* writtenServer of pull
  writtenClient, \* writtenClient of pull
  lastOp,        \* the operation that ran last and how it ended
  lastCall,      \* update call of the last operation: <<>> or <<payload>>
  prePull,       \* the two directories when the current pull started
  again,         \* the current pull follows a successful pull with no change between
  cleanSince,    \* a pull succeeded and nothing changed remotely or locally since
  pushedStored,  \* records stored remotely by the last push, until disturbed
  codecPc,       \* codec round trip: "off", "in", "text", "out"
  codecIn,       \* the record given to the encoder
  codecText,     \* the encoded file text
  codecOut,      \* the decoded record
  sites,         \* sites configuration: what workspaceState and site.json hold
  diffIn,        \* the four lists the last diff gave to buildDiffEntries
  diffOut,       \* the entries the last diff built
  watcher,       \* FileWatcher: <<>> when not watching, else <<siteId>>
  tasks,         \* the asynchronous handlers in flight, one per source
  reported,      \* number of error messages shown for failed auto-pushes
  lost,          \* what the last write of site-info.json overwrote unseen
  currentSite,   \* current-site of the sites configuration, 0 when none
  fault,         \* what reading each script directory fails with
  listing,       \* the lists the last listing of local scripts returned
  siteCall,      \* the site id the last command on a site was given, and the
                 \* site its remote update call named
  sitesConfig,   \* the sites configuration as persistSites stored it
  fileWatcher,   \* the fields watcher and activeSiteId of the FileWatcher
  chokidar,      \* the underlying watchers made so far and those still open
  watchCalls,    \* the calls of FileWatcher.start and stop in flight
  connection,    \* where the connection settings are kept: globalState,
                 \* secrets, workspaceState, config.json, the user settings
  configOut      \* the domain and key the last config-set or config-sync
                 \* stored, and what getConfig returned since

vars == << remote, serverDir, clientDir, snapshot, siteInfo, lastSync, clock,
           pc, pullData, writtenServer, writtenClient, lastOp, lastCall,
           prePull, again, cleanSince, pushedStored,
           codecPc, codecIn, codecText, codecOut,
           sites, diffIn, diffOut, watcher, tasks, reported, lost,
           currentSite, fault, listing, siteCall,
           sitesConfig, fileWatcher, chokidar, watchCalls, connection, configOut >>

codecVars == << codecPc, codecIn, codecText, codecOut >>

diffVars == << sites, diffIn, diffOut >>

fileVars == << watcher, tasks, reported, lost >>

siteVars == << currentSite, fault, listing, siteCall >>

adminVars == << sitesConfig, fileWatcher, chokidar, watchCalls, connection, configOut >>

Range(f) == { f[i] : i \in DOMAIN f }

(************************ directories **************************************)
EmptyDir == <<>>

FileEntry(text) == [kind |-> "file", text |-> text]

DirEntry == [kind |-> "dir", text |-> <<>>]

\* a write that appends to the file it finds instead of replacing it
WriteFileAppending(dir, name, text) ==
  With(dir, name,
       FileEntry(IF name \in DOMAIN dir THEN dir[name].text \o text ELSE text))

\* fs.writeFile(target, content): creates or overwrites
WriteFile(dir, name, text) == With(dir, name, FileEntry(text))

\* fs.unlink(target)
Unlink(dir, name) == Without(dir, name)

\* a cleanup that takes every entry of the directory for a script file
AnyEntries(dir) == DOMAIN dir

\* entries that pass `entry.isFile() && name.toLowerCase().endsWith('.js')`
ScriptFiles(dir) ==
  { n \in DOMAIN dir : dir[n].kind = "file" /\ EndsWithJs(n) }

\* a cleanup that only looks at files named after an id
OrphansWithId(dir, keepFiles) ==
  { n \in ScriptFiles(dir) : NameMatches(n) /\ n \notin Range(keepFiles) }

\* the entries cleanupOrphanFiles unlinks: script files not in keepFiles
Orphans(dir, keepFiles) ==
  { n \in ScriptFiles(dir) : n \notin Range(keepFiles) }

(************************ snapshot and local scan **************************)
\* the Map built by one loop of loadExistingScriptMaps: a later entry with
\* the same id replaces an earlier one
RECURSIVE BuildMap(_, _)
BuildMap(entries, map) ==
  IF Len(entries) = 0 THEN map
  ELSE BuildMap(Tail(entries),
                IF Has(Head(entries), "Id")
                THEN (Head(entries).Id :> Head(entries)) @@ map
                ELSE map)

\* ScriptSynchronizer.loadExistingScriptMaps: both maps are empty when
\* site-setting.json cannot be read
loadExistingScriptMaps(snap) ==
  IF Len(snap) = 0 THEN [server |-> <<>>, client |-> <<>>]
  ELSE [server |-> BuildMap(normalizeServerScripts(snap[1]), <<>>),
        client |-> BuildMap(normalizeClientScripts(snap[1]), <<>>)]

\* ScriptSynchronizer.collectLocalServerScripts (the listing order of the
\* directory is platform dependent, so the result is a set)
collectLocalServerScripts(dir, existingMap) ==
  { parseServerScript(n, dir[n].text, existingMap) : n \in ScriptFiles(dir) }

\* ScriptSynchronizer.collectLocalClientScripts
collectLocalClientScripts(dir, existingMap) ==
  { parseClientScript(n, dir[n].text, existingMap) : n \in ScriptFiles(dir) }

\* a filter that lets scripts without an id through
filterByActiveOrNew(scripts, activeIds) ==
  IF Len(activeIds) = 0 THEN scripts
  ELSE { sc \in scripts : sc.id = NullId \/ sc.id \in Range(activeIds) }

\* ScriptSynchronizer.filterByActive
filterByActive(scripts, activeIds) ==
  IF Len(activeIds) = 0 THEN scripts
  ELSE { sc \in scripts : sc.id # NullId /\ sc.id \in Range(activeIds) }

(************************ active script set ********************************)
RECURSIVE SortedSeq(_)
\* the elements of a set of numbers in ascending order
SortedSeq(S) ==
  IF S = {} THEN <<>>
  ELSE LET m == CHOOSE x \in S : \A y \in S : x <= y
       IN <<m>> \o SortedSeq(S \ {m})

RECURSIVE SortKeepingDuplicates(_)
\* a sort that keeps an id as often as it was given
SortKeepingDuplicates(ids) ==
  IF Len(ids) = 0 THEN <<>>
  ELSE LET m == CHOOSE i \in 1..Len(ids) : \A j \in 1..Len(ids) : ids[i] <= ids[j]
       IN <<ids[m]>> \o SortKeepingDuplicates(
                          SubSeq(ids, 1, m - 1) \o SubSeq(ids, m + 1, Len(ids)))

\* [...new Set(ids)].sort((a, b) => a - b)
DedupSort(ids) == SortedSeq(Range(ids))

(************************ remote script store ******************************)
\* ids the store holds in one of its lists
StoredIds(list) == { list[i].Id : i \in 1..Len(list) }

\* the store gives a record sent without an id the next free id
FreshId(list) ==
  IF list = <<>> THEN 1
  ELSE (CHOOSE m \in StoredIds(list) : \A x \in StoredIds(list) : x <= m) + 1

\* updatesitesettings for one record: the store keeps what was sent, in the
\* place of the record with the same id when it has one
StoreRecord(list, rec) ==
  IF Has(rec, "Id") /\ rec.Id \in StoredIds(list)
  THEN [i \in 1..Len(list) |-> IF list[i].Id = rec.Id THEN rec ELSE list[i]]
  ELSE IF Has(rec, "Id") THEN Append(list, rec)
  ELSE Append(list, With(rec, "Id", FreshId(list)))

RECURSIVE StoreAll(_, _)
\* updatesitesettings for the records of one variant
StoreAll(list, recs) ==
  IF recs = {} THEN list
  ELSE LET r == CHOOSE x \in recs : TRUE
       IN StoreAll(StoreRecord(list, r), recs \ {r})

\* OwlanterApiClient.batchUpdateScripts as seen by the store
batchUpdateScripts(store, scripts, serverScripts) ==
  [ServerScripts |-> StoreAll(store.ServerScripts, serverScripts),
   Scripts       |-> StoreAll(store.Scripts, scripts)]

(************************ diff reconciler **********************************)
\* `${v ?? ''}` for a text property
TextOrEmpty(script, k) == IF Has(script, k) THEN script[k] ELSE <<>>

\* `${script.Id ?? ''}`
IdOrEmpty(script) == IF Has(script, "Id") THEN NumToStr(script.Id) ELSE <<>>

\* `${b ?? false}` for a boolean property
BoolOrFalse(script, k) == IF Truthy(script, k) THEN <<"true">> ELSE <<"false">>

\* composeServerScriptContent: the remote side of a server entry
composeServerScriptContent(script) ==
  << HeaderLine("id", IdOrEmpty(script)),
     HeaderLine("title", TextOrEmpty(script, "Title")),
     HeaderLine("name", TextOrEmpty(script, "Name")) >>
  \o HookLines(script) \o << <<>> >>
  \o (IF Has(script, "Body") THEN script.Body ELSE << <<>> >>)

\* composeClientScriptContent: the remote side of a client entry
composeClientScriptContent(script) ==
  << HeaderLine("id", IdOrEmpty(script)),
     HeaderLine("title", TextOrEmpty(script, "Title")),
     HeaderLine("all", BoolOrFalse(script, "ScriptAll")),
     HeaderLine("new", BoolOrFalse(script, "ScriptNew")),
     HeaderLine("edit", BoolOrFalse(script, "ScriptEdit")),
     HeaderLine("index", BoolOrFalse(script, "ScriptIndex")),
     HeaderLine("disabled", BoolOrFalse(script, "Disabled")) >>
  \o << <<>> >>
  \o (IF Has(script, "Body") THEN script.Body ELSE << <<>> >>)

\* toNumberOrNull(script.Id)
toNumberOrNull(script) == IF Has(script, "Id") THEN script.Id ELSE NullId

\* `server:${script.Id ?? script.Title}` for a remote record: the text after
\* the variant is the id in decimal or, without an id, the title
RemoteKey(type, script) ==
  [type |-> type,
   text |-> IF Has(script, "Id") THEN NumToStr(script.Id)
            ELSE TextOrEmpty(script, "Title")]

\* `server:${script.id ?? script.title}` for a local script
LocalKey(type, local) ==
  [type |-> type,
   text |-> IF local.id # NullId THEN NumToStr(local.id) ELSE local.title]

\* the DiffEntry made for a remote record; an entry without a local path
\* has localPath <<>>, one without remote content has remoteContent <<>>
RemoteEntry(type, script) ==
  [type |-> type,
   id |-> toNumberOrNull(script),
   title |-> IF type = "server"
             THEN (IF Has(script, "Title") THEN script.Title
                   ELSE IF Has(script, "Name") THEN script.Name
                   ELSE <<"(server script)">>)
             ELSE (IF Has(script, "Title") THEN script.Title
                   ELSE <<"(client script)">>),
   localPath |-> <<>>,
   remoteContent |-> << IF type = "server"
                        THEN composeServerScriptContent(script)
                        ELSE composeClientScriptContent(script) >>]

\* the DiffEntry made for a local script that has no entry yet
LocalEntry(type, local) ==
  [type |-> type, id |-> local.id, title |-> local.title,
   localPath |-> << [type |-> type, name |-> local.filePath] >>,
   remoteContent |-> <<>>]

\* an existing entry given the path and the title of a local script
Overlay(entry, type, local) ==
  [entry EXCEPT !.localPath = << [type |-> type, name |-> local.filePath] >>,
                !.title = local.title]

\* Map.get: index of the key in the map, 0 when it has none.  The map is
\* the sequence of its [key, entry] pairs in insertion order.
MapIndex(map, key) ==
  IF \E i \in 1..Len(map) : map[i].key = key
  THEN CHOOSE i \in 1..Len(map) : map[i].key = key
  ELSE 0

\* Map.set: a key the map has keeps its place, a new key goes last
MapSet(map, key, entry) ==
  IF MapIndex(map, key) = 0
  THEN Append(map, [key |-> key, entry |-> entry])
  ELSE [map EXCEPT ![MapIndex(map, key)].entry = entry]

RECURSIVE SeedRemote(_, _, _)
\* buildDiffEntries, lines 620-640: the loops over the remote records
SeedRemote(map, type, scripts) ==
  IF Len(scripts) = 0 THEN map
  ELSE SeedRemote(MapSet(map, RemoteKey(type, Head(scripts)),
                         RemoteEntry(type, Head(scripts))),
                  type, Tail(scripts))

RECURSIVE OverlayLocal(_, _, _)
\* buildDiffEntries, lines 642-670: the loops over the local scripts
OverlayLocal(map, type, locals) ==
  IF Len(locals) = 0 THEN map
  ELSE LET key == LocalKey(type, Head(locals))
           at  == MapIndex(map, key)
       IN OverlayLocal(
            IF at = 0
            THEN MapSet(map, key, LocalEntry(type, Head(locals)))
            ELSE MapSet(map, key, Overlay(map[at].entry, type, Head(locals))),
            type, Tail(locals))

\* Number.MAX_SAFE_INTEGER: a number above every script id
MAX_SAFE_INTEGER == 2147483647

\* a.id ?? Number.MAX_SAFE_INTEGER
IdOrMax(entry) == IF entry.id = NullId THEN MAX_SAFE_INTEGER ELSE entry.id

\* a comparator that reads a missing id as 0
CompareNullFirst(a, b) ==
  IF a.type # b.type THEN (IF a.type = "server" THEN -1 ELSE 1)
  ELSE (IF a.id = NullId THEN 0 ELSE a.id) - (IF b.id = NullId THEN 0 ELSE b.id)

\* the comparator given to entries.sort, lines 673-680
Compare(a, b) ==
  IF a.type # b.type THEN (IF a.type = "server" THEN -1 ELSE 1)
  ELSE IdOrMax(a) - IdOrMax(b)

\* one entry put into a sorted list behind every entry it does not precede
InsertSorted(sorted, e) ==
  LET n == Cardinality({ i \in 1..Len(sorted) : Compare(sorted[i], e) <= 0 })
  IN SubSeq(sorted, 1, n) \o <<e>> \o SubSeq(sorted, n + 1, Len(sorted))

RECURSIVE SortEntries(_, _)
\* Array.prototype.sort, which is stable: entries that compare equal keep
\* their insertion order
SortEntries(sorted, rest) ==
  IF Len(rest) = 0 THEN sorted
  ELSE SortEntries(InsertSorted(sorted, Head(rest)), Tail(rest))

\* ScriptSynchronizer.buildDiffEntries
buildDiffEntries(remoteServers, remoteClients, localServer, localClient) ==
  LET seeded == SeedRemote(SeedRemote(<<>>, "server", remoteServers),
                           "client", remoteClients)
      map    == OverlayLocal(OverlayLocal(seeded, "server", localServer),
                             "client", localClient)
  IN SortEntries(<<>>, [i \in 1..Len(map) |-> map[i].entry])

(************************ inputs *******************************************)
BodyX == << <<"x">> >>
\* "x\n": a body that ends with a newline
BodyXnl == << <<"x">>, <<>> >>
BodyY == << <<"y">>, <<" ", "y">> >>

ServerA == [Id |-> 1, Title |-> <<"A">>, Name |-> <<"A">>, Body |-> BodyX,
            ServerScriptBeforeCreate |-> TRUE, Functionalize |-> TRUE]
ServerB == [Id |-> 2, Title |-> <<"B", " ", "/", "b">>, Body |-> BodyY,
            Shared |-> TRUE, TryCatch |-> TRUE, ServerScriptAfterUpdate |-> FALSE]
ServerN == [Id |-> 1, Title |-> <<"A">>, Name |-> <<"A">>, Body |-> BodyXnl,
            ServerScriptBeforeCreate |-> TRUE]
ClientC == [Id |-> 1, Title |-> <<"C">>, Body |-> BodyX,
            ScriptAll |-> TRUE, Disabled |-> FALSE]
ClientD == [Id |-> 2, Title |-> <<"D">>, Body |-> BodyY, Edit |-> TRUE]

\* states of the remote store other users can leave behind
RemotePresets ==
  { [ServerScripts |-> <<ServerA, ServerB>>, Scripts |-> <<ClientC, ClientD>>],
    [ServerScripts |-> <<ServerN>>, Scripts |-> <<ClientC>>] }

\* what a user saves by hand: a new script without an id that declares
\* flags, a pulled script rewritten without its header, and a directory
UserEdits ==
  { [variant |-> "server", name |-> <<"new", "_", "Draft", ".js">>,
     entry |-> FileEntry(<< HeaderLine("functionalize", <<"true">>),
                            HeaderLine("shared", <<"false">>),
                            <<>>, <<"z">> >>)],
    [variant |-> "server", name |-> <<"1", "_", "A", ".js">>,
     entry |-> FileEntry(<< <<"z">> >>)],
    [variant |-> "server", name |-> <<"old", ".js">>, entry |-> DirEntry] }

\* arguments of setActiveScripts when something is picked; nothing picked
\* is what clearActiveScripts passes
ActiveInputs ==
  { [server |-> <<3, 1, 3>>, client |-> <<>>],
    [server |-> <<3>>, client |-> <<3>>] }

\* options of push and outcomes of its collaborators: the combinations that
\* differ in what push does
PushInputs ==
  { i \in [dryRun : BOOLEAN, force : BOOLEAN, required : BOOLEAN,
           answer : {"Push", "Cancel"}, fetchOk : BOOLEAN, updateOk : BOOLEAN] :
      /\ i.dryRun => (~i.force /\ ~i.required /\ i.updateOk)
      /\ ~i.dryRun => i.fetchOk
      /\ ~i.required => (~i.force /\ i.answer = "Push")
      /\ i.required => i.updateOk
      /\ i.force => i.answer = "Cancel" }

(************************ site info ****************************************)
\* SiteManager.createDefaultSiteInfo: the fields the engine updates
DefaultSiteInfo ==
  [lastPulled |-> 0, lastPushed |-> 0,
   scriptsCount |-> [server |-> 0, client |-> 0],
   activeScripts |-> [server |-> <<>>, client |-> <<>>]]

\* ScriptSynchronizer.getActiveScriptIds
getActiveScriptIds(info) ==
  [server |-> info.activeScripts.server, client |-> info.activeScripts.client]

\* what ran last: the operation, how it ended, where a pull stood, the
\* dryRun option it was given, whether it ran diff, and the id lists it
\* was called with when it was setActiveScripts
Op(name, result, stage, dryRun) ==
  [name |-> name, result |-> result, stage |-> stage, dryRun |-> dryRun,
   diff |-> FALSE, args |-> <<>>]

(************************ sites configuration ******************************)
\* The sites configuration as far as the engine's site lookup goes: whether
\* the site is listed (and current), and the folder-name of its entry, which
\* is missing ("absent"), differs from the one createSiteFolderName gives
\* ("stale") or equals it ("expected").
SiteConfig(listed, folder) == [listed |-> listed, folder |-> folder]

\* initialConfig of getSites: no site, current-site 0
NoSites == SiteConfig(FALSE, "absent")

\* workspaceState and site.json both hold the configuration, folder settled
SettledSites ==
  [state |-> << SiteConfig(TRUE, "expected") >>,
   file |-> << SiteConfig(TRUE, "expected") >>]

\* SiteManager.ensureSiteFolderMetadata; renameOk is what renameSiteDirectory
\* returns for a folder-name that has to change
ensureSiteFolderMetadata(config, renameOk) ==
  IF ~config.listed \/ config.folder = "expected"
  THEN [config |-> config, mutated |-> FALSE]
  ELSE IF config.folder = "stale" /\ ~renameOk
  THEN [config |-> config, mutated |-> FALSE]
  ELSE [config |-> SiteConfig(TRUE, "expected"), mutated |-> TRUE]

\* SiteManager.persistSites: workspaceState and site.json
persistSites(config) == [state |-> <<config>>, file |-> <<config>>]

\* SiteManager.getSites: the configuration returned and the store it leaves
getSites(store, renameOk) ==
  IF Len(store.state) > 0
  THEN LET e == ensureSiteFolderMetadata(store.state[1], renameOk)
       IN [config |-> e.config,
           store |-> IF e.mutated THEN persistSites(e.config) ELSE store]
  ELSE IF Len(store.file) > 0
  THEN LET e == ensureSiteFolderMetadata(store.file[1], renameOk)
       IN [config |-> e.config,
           store |-> IF e.mutated THEN persistSites(e.config)
                     ELSE [store EXCEPT !.state = << e.config >>]]
  ELSE [config |-> NoSites, store |-> persistSites(NoSites)]

\* no diff has run
NoDiffInput ==
  [remoteServers |-> <<>>, remoteClients |-> <<>>,
   localServer |-> <<>>, localClient |-> <<>>]

DiffOff ==
  /\ sites = SettledSites
  /\ diffIn = NoDiffInput
  /\ diffOut = <<>>

(************************ handlers in flight *******************************)
\* the sources of asynchronous handlers: the change handler of the file
\* watcher, the toggle of a tree node, the commands of the palette
Slots == {"push", "first", "second"}

\* no handler of a source is running
IdleTask ==
  [pc |-> "idle", kind |-> "-", path |-> <<>>,
   server |-> <<>>, client |-> <<>>,
   seen |-> [server |-> <<>>, client |-> <<>>], info |-> DefaultSiteInfo]

FileOff ==
  /\ watcher = <<>>
  /\ tasks = [s \in Slots |-> IdleTask]
  /\ reported = 0
  /\ lost = "none"

\* no directory read fails
NoFault == [server |-> "none", client |-> "none"]

\* no command on a site has run
NoSiteCall == [asked |-> <<>>, site |-> NullId]

\* one site, selected; nothing listed, nothing sent through a command
SiteOff ==
  /\ currentSite = 1
  /\ fault = NoFault
  /\ listing = <<>>
  /\ siteCall = NoSiteCall

\* the callers whose calls of FileWatcher.start and stop may overlap
Callers == {"first", "second"}

\* a sites configuration without sites
EmptySitesConfig == [sites |-> <<>>, current |-> 0, default |-> 0]

\* the fields of a FileWatcher as constructed
NotWatching == [watcher |-> <<>>, activeSiteId |-> NullId]

\* no call of the FileWatcher is running
IdleCall == [pc |-> "idle", siteId |-> NullId, paths |-> 0, closing |-> <<>>]

\* nothing stored about the connection, no config.json, empty user settings
NoConnection ==
  [domain |-> <<>>, api |-> <<>>, settings |-> <<>>, file |-> <<>>,
   user |-> [domain |-> <<>>, apiKey |-> <<>>]]

\* no command has stored a connection, getConfig has not been called
NoConfigOut == [given |-> <<>>, got |-> <<>>]

\* no site registered, no watcher made, no connection configured
AdminOff ==
  /\ sitesConfig = EmptySitesConfig
  /\ fileWatcher = NotWatching
  /\ chokidar = [made |-> 0, open |-> {}]
  /\ watchCalls = [c \in Callers |-> IdleCall]
  /\ connection = NoConnection
  /\ configOut = NoConfigOut

(************************ initial state ************************************)
NoSiteData == [ServerScripts |-> <<>>, Scripts |-> <<>>]

NoDirs == [server |-> EmptyDir, client |-> EmptyDir]

NothingStored == [server |-> {}, client |-> {}]

SyncInit ==
  /\ remote \in RemotePresets
  /\ serverDir = EmptyDir
  /\ clientDir = EmptyDir
  /\ snapshot = <<>>
  /\ siteInfo = DefaultSiteInfo
  /\ lastSync = 0
  /\ clock = 0
  /\ pc = "idle"
  /\ pullData = NoSiteData
  /\ writtenServer = <<>>
  /\ writtenClient = <<>>
  /\ lastOp = Op("init", "ok", "-", FALSE)
  /\ lastCall = <<>>
  /\ prePull = NoDirs
  /\ again = FALSE
  /\ cleanSince = FALSE
  /\ pushedStored = NothingStored

CodecOff ==
  /\ codecPc = "off"
  /\ codecIn = [variant |-> "server", rec |-> normalizeServerScript(ServerA)]
  /\ codecText = << <<>> >>
  /\ codecOut = normalizeServerScript(ServerA)

Init == SyncInit /\ CodecOff /\ DiffOff /\ FileOff /\ SiteOff /\ AdminOff

(************************ pull *********************************************)
\* an I/O or remote call succeeds or fails
Outcomes == BOOLEAN

\* the locals of a pull are gone once pull has returned
PullLocalsGone ==
  /\ pullData' = NoSiteData
  /\ writtenServer' = <<>>
  /\ writtenClient' = <<>>
  /\ prePull' = NoDirs
  /\ again' = FALSE

\* what stays as it is while a pull runs
PullFrame ==
  UNCHANGED << remote, lastSync, lastCall, pushedStored, codecVars, diffVars, fileVars, siteVars, adminVars >>

\* pull ends with the error thrown at the given stage
PullAbort(stage) ==
  /\ pc' = "idle"
  /\ lastOp' = Op("pull", "error", stage, FALSE)
  /\ cleanSince' = FALSE

\* a pull that opens site-setting.json for writing before it fetches
PullFetchAfterOpen(ok) ==
  /\ pc = "idle"
  /\ clock < MaxClock
  /\ clock' = clock + 1
  /\ prePull' = [server |-> serverDir, client |-> clientDir]
  /\ writtenServer' = <<>>
  /\ writtenClient' = <<>>
  /\ again' = (ok /\ cleanSince)
  /\ snapshot' = <<NoSiteData>>
  /\ IF ok
     THEN /\ pullData' = remote
          /\ pc' = "snapshot"
          /\ lastOp' = Op("pull", "running", "fetch", FALSE)
          /\ UNCHANGED cleanSince
     ELSE /\ PullAbort("fetch")
          /\ pullData' = NoSiteData
  /\ UNCHANGED << serverDir, clientDir, siteInfo >>
  /\ PullFrame

\* pull, lines 42-44: requireSite, createApiClient, getSiteSettings
PullFetch(ok) ==
  /\ pc = "idle"
  /\ clock < MaxClock
  /\ clock' = clock + 1
  /\ prePull' = [server |-> serverDir, client |-> clientDir]
  /\ writtenServer' = <<>>
  /\ writtenClient' = <<>>
  /\ again' = (ok /\ cleanSince)
  /\ IF ok
     THEN /\ pullData' = remote
          /\ pc' = "snapshot"
          /\ lastOp' = Op("pull", "running", "fetch", FALSE)
          /\ UNCHANGED cleanSince
     ELSE /\ PullAbort("fetch")
          /\ pullData' = NoSiteData
  /\ UNCHANGED << serverDir, clientDir, snapshot, siteInfo >>
  /\ PullFrame

\* pull, lines 46-56: write site-setting.json
PullSnapshot ==
  /\ pc = "snapshot"
  /\ snapshot' = <<pullData>>
  /\ pc' = "writeServer"
  /\ lastOp' = Op("pull", "running", "snapshot", FALSE)
  /\ UNCHANGED << serverDir, clientDir, siteInfo, pullData, writtenServer,
                  writtenClient, prePull, again, cleanSince >>
  /\ UNCHANGED clock
  /\ PullFrame

\* a write fails when the I/O fails or the target is a directory
CanWrite(dir, name, ok) == ok /\ ~(name \in DOMAIN dir /\ dir[name].kind = "dir")

\* writeServerScripts: one iteration of the loop, or its end
PullWriteServer(ok) ==
  /\ pc = "writeServer"
  /\ LET scripts == normalizeServerScripts(pullData)
         i == Len(writtenServer) + 1
     IN IF i <= Len(scripts)
        THEN /\ IF CanWrite(serverDir, scriptFileName(scripts[i]), ok)
                THEN /\ serverDir' = WriteFile(serverDir, scriptFileName(scripts[i]),
                                               serverScriptContent(scripts[i]))
                     /\ writtenServer' = Append(writtenServer, scriptFileName(scripts[i]))
                     /\ pc' = "writeServer"
                     /\ lastOp' = Op("pull", "running", "writeServer", FALSE)
                     /\ UNCHANGED cleanSince
                ELSE /\ PullAbort("writeServer")
                     /\ UNCHANGED << serverDir, writtenServer >>
        ELSE /\ ok
             /\ pc' = "writeClient"
             /\ lastOp' = Op("pull", "running", "writeServer", FALSE)
             /\ UNCHANGED << serverDir, writtenServer, cleanSince >>
  /\ UNCHANGED << clientDir, snapshot, siteInfo, pullData, writtenClient, prePull, again >>
  /\ UNCHANGED clock
  /\ PullFrame

\* writeClientScripts: one iteration of the loop, or its end
PullWriteClient(ok) ==
  /\ pc = "writeClient"
  /\ LET scripts == normalizeClientScripts(pullData)
         i == Len(writtenClient) + 1
     IN IF i <= Len(scripts)
        THEN /\ IF CanWrite(clientDir, scriptFileName(scripts[i]), ok)
                THEN /\ clientDir' = WriteFile(clientDir, scriptFileName(scripts[i]),
                                               scriptContent(scripts[i]))
                     /\ writtenClient' = Append(writtenClient, scriptFileName(scripts[i]))
                     /\ pc' = "writeClient"
                     /\ lastOp' = Op("pull", "running", "writeClient", FALSE)
                     /\ UNCHANGED cleanSince
                ELSE /\ PullAbort("writeClient")
                     /\ UNCHANGED << clientDir, writtenClient >>
        ELSE /\ ok
             /\ pc' = "cleanServer"
             /\ lastOp' = Op("pull", "running", "writeClient", FALSE)
             /\ UNCHANGED << clientDir, writtenClient, cleanSince >>
  /\ UNCHANGED << serverDir, snapshot, siteInfo, pullData, writtenServer, prePull, again >>
  /\ UNCHANGED clock
  /\ PullFrame

\* a cleanup of the server directory that is given the client file list
PullCleanServerByClientList ==
  /\ pc = "cleanServer"
  /\ IF Orphans(serverDir, writtenClient) # {}
     THEN /\ \E n \in Orphans(serverDir, writtenClient) : serverDir' = Unlink(serverDir, n)
          /\ pc' = "cleanServer"
     ELSE /\ pc' = "cleanClient"
          /\ UNCHANGED serverDir
  /\ lastOp' = Op("pull", "running", "cleanServer", FALSE)
  /\ UNCHANGED << clientDir, snapshot, siteInfo, pullData, writtenServer,
                  writtenClient, prePull, again, cleanSince >>
  /\ UNCHANGED clock
  /\ PullFrame

\* cleanupOrphanFiles(serverDir, writtenServer): one unlink, or its end
PullCleanServer ==
  /\ pc = "cleanServer"
  /\ IF Orphans(serverDir, writtenServer) # {}
     THEN /\ \E n \in Orphans(serverDir, writtenServer) : serverDir' = Unlink(serverDir, n)
          /\ pc' = "cleanServer"
     ELSE /\ pc' = "cleanClient"
          /\ UNCHANGED serverDir
  /\ lastOp' = Op("pull", "running", "cleanServer", FALSE)
  /\ UNCHANGED << clientDir, snapshot, siteInfo, pullData, writtenServer,
                  writtenClient, prePull, again, cleanSince >>
  /\ UNCHANGED clock
  /\ PullFrame

\* cleanupOrphanFiles(clientDir, writtenClient): one unlink, or its end
PullCleanClient ==
  /\ pc = "cleanClient"
  /\ IF Orphans(clientDir, writtenClient) # {}
     THEN /\ \E n \in Orphans(clientDir, writtenClient) : clientDir' = Unlink(clientDir, n)
          /\ pc' = "cleanClient"
     ELSE /\ pc' = "finish"
          /\ UNCHANGED clientDir
  /\ lastOp' = Op("pull", "running", "cleanClient", FALSE)
  /\ UNCHANGED << serverDir, snapshot, siteInfo, pullData, writtenServer,
                  writtenClient, prePull, again, cleanSince >>
  /\ UNCHANGED clock
  /\ PullFrame

\* pull, lines 67-78: updateSiteInfo and updateLastSync
PullFinish ==
  /\ pc = "finish"
  /\ siteInfo' = [siteInfo EXCEPT
                    !.scriptsCount = [server |-> Len(normalizeServerScripts(pullData)),
                                      client |-> Len(normalizeClientScripts(pullData))],
                    !.lastPulled = clock]
  /\ lastSync' = clock
  /\ pc' = "idle"
  /\ lastOp' = Op("pull", "ok", "finish", FALSE)
  /\ cleanSince' = TRUE
  /\ UNCHANGED << remote, serverDir, clientDir, snapshot, clock, pullData, writtenServer,
                  writtenClient, lastCall, prePull, again, pushedStored, codecVars,
                  diffVars, fileVars, siteVars, adminVars >>

(************************ sites and directory reads ************************)
\* config.sites: the ids of the registered sites
KnownSites == {1, 2}

\* SiteManager.getCurrentSite: the id of the site found, NullId for null
getCurrentSite(current) ==
  IF current = 0 THEN NullId
  ELSE IF current \in KnownSites THEN current
  ELSE NullId

\* SiteManager.getSiteById
getSiteById(siteId) == IF siteId \in KnownSites THEN siteId ELSE NullId

\* ScriptSynchronizer.requireSite; siteId is <<>> for undefined, NullId
\* stands for the throw of 'No site selected'
requireSite(siteId, current) ==
  IF siteId # <<>> THEN getSiteById(siteId[1]) ELSE getCurrentSite(current)

\* a directory read that throws whenever readdir fails
safeReadDirStrict(dir, f) ==
  IF f = "none" THEN [error |-> FALSE, entries |-> dir]
  ELSE [error |-> TRUE, entries |-> EmptyDir]

\* safeReadDir: f is what readdir fails with
safeReadDir(dir, f) ==
  IF f = "none" THEN [error |-> FALSE, entries |-> dir]
  ELSE IF f = "ENOENT" THEN [error |-> FALSE, entries |-> EmptyDir]
  ELSE [error |-> TRUE, entries |-> EmptyDir]

\* collectLocalScripts throws: one of its directory reads does
ReadThrows ==
  \/ safeReadDir(serverDir, fault.server).error
  \/ safeReadDir(clientDir, fault.client).error

(************************ push *********************************************)
\* collectLocalScripts followed by filterByActive, lines 88-92 of push
SelectedServer ==
  filterByActive(
    collectLocalServerScripts(safeReadDir(serverDir, fault.server).entries,
                              loadExistingScriptMaps(snapshot).server),
    getActiveScriptIds(siteInfo).server)

SelectedClient ==
  filterByActive(
    collectLocalClientScripts(safeReadDir(clientDir, fault.client).entries,
                              loadExistingScriptMaps(snapshot).client),
    getActiveScriptIds(siteInfo).client)

\* the records of an update call: item => item.script
ScriptsOf(items) == { it.script : it \in items }

\* the records of sent as the store holds them after the update
StoredOf(list, sent) ==
  { r \in Range(list) : \E x \in sent : Without(r, "Id") = Without(x, "Id") }

\* what no push changes
PushFrame ==
  /\ PullLocalsGone
  /\ UNCHANGED << serverDir, clientDir, snapshot, pc, codecVars, diffVars, fileVars, siteVars, adminVars >>

\* push ends without having updated the remote store
PushWithoutUpdate(result, dryRun) ==
  /\ lastOp' = [Op("push", result, "-", dryRun) EXCEPT !.diff = dryRun]
  /\ lastCall' = <<>>
  /\ pushedStored' = NothingStored
  /\ clock' = clock + 1
  /\ UNCHANGED << remote, siteInfo, lastSync, cleanSince >>

\* push, lines 83-86: diff runs in the place of the push; fetchOk is the
\* outcome of the remote fetch diff makes
PushDryRun(fetchOk) ==
  PushWithoutUpdate(IF fetchOk THEN "ok" ELSE "error", TRUE)

\* push, lines 112-126: the update call and what follows it
PushSend(dryRun, filteredServer, filteredClient) ==
  LET stored == batchUpdateScripts(remote, ScriptsOf(filteredClient),
                                   ScriptsOf(filteredServer))
  IN /\ \A r \in Range(stored.ServerScripts) \cup Range(stored.Scripts) : r.Id <= MaxId
     /\ remote' = stored
     /\ lastCall' = << [server |-> filteredServer, client |-> filteredClient] >>
     /\ pushedStored' =
          [server |-> StoredOf(stored.ServerScripts, ScriptsOf(filteredServer)),
           client |-> StoredOf(stored.Scripts, ScriptsOf(filteredClient))]
     /\ siteInfo' = [siteInfo EXCEPT !.lastPushed = clock + 1]
     /\ lastSync' = clock + 1
     /\ clock' = clock + 1
     /\ lastOp' = Op("push", "ok", "-", dryRun)
     /\ cleanSince' = FALSE
    

\* a push that goes on to the update call with nothing selected
PushSelectedUnguarded(dryRun, force, required, answer, updateOk, filteredServer, filteredClient) ==
  IF required /\ ~force /\ answer # "Push"
  THEN PushWithoutUpdate("cancelled", dryRun)
  ELSE IF ~updateOk
  THEN PushWithoutUpdate("error", dryRun)
  ELSE PushSend(dryRun, filteredServer, filteredClient)

\* a push that goes on unless the prompt is answered with 'Cancel'
PushSelectedUnlessCancel(dryRun, force, required, answer, updateOk, filteredServer, filteredClient) ==
  IF filteredServer = {} /\ filteredClient = {}
  THEN PushWithoutUpdate("noop", dryRun)
  ELSE IF required /\ ~force /\ answer = "Cancel"
  THEN PushWithoutUpdate("cancelled", dryRun)
  ELSE IF ~updateOk
  THEN PushWithoutUpdate("error", dryRun)
  ELSE PushSend(dryRun, filteredServer, filteredClient)

\* push, lines 94-126, given the filtered lists.  dryRun is the option as
\* given, required is isConfirmationRequired(site.environment), answer the
\* button chosen in the confirmation prompt, updateOk the outcome of
\* batchUpdateScripts
PushSelected(dryRun, force, required, answer, updateOk, filteredServer, filteredClient) ==
  IF filteredServer = {} /\ filteredClient = {}
  THEN PushWithoutUpdate("noop", dryRun)
  ELSE IF required /\ ~force /\ answer # "Push"
  THEN PushWithoutUpdate("cancelled", dryRun)
  ELSE IF ~updateOk
  THEN PushWithoutUpdate("error", dryRun)
  ELSE PushSend(dryRun, filteredServer, filteredClient)

\* push, lines 88-126
PushReal(dryRun, force, required, answer, updateOk) ==
  IF ReadThrows
  THEN PushWithoutUpdate("error", dryRun)
  ELSE PushSelected(dryRun, force, required, answer, updateOk,
                    SelectedServer, SelectedClient)

\* a push that does not look at the dryRun option
PushIgnoringDryRun(dryRun, force, required, answer, fetchOk, updateOk) ==
  /\ pc = "idle"
  /\ clock < MaxClock
  /\ PushFrame
  /\ PushReal(dryRun, force, required, answer, updateOk)

\* ScriptSynchronizer.push
Push(dryRun, force, required, answer, fetchOk, updateOk) ==
  /\ pc = "idle"
  /\ clock < MaxClock
  /\ PushFrame
  /\ IF dryRun
     THEN PushDryRun(fetchOk)
     ELSE PushReal(dryRun, force, required, answer, updateOk)

(************************ active script set operations *********************)
\* what the operations below leave alone
IdleFrame ==
  /\ PullLocalsGone
  /\ lastCall' = <<>>
  /\ pushedStored' = NothingStored
  /\ clock < MaxClock
  /\ clock' = clock + 1
  /\ UNCHANGED << pc, lastSync, codecVars, diffVars, fileVars, siteVars, adminVars >>

\* ScriptSynchronizer.setActiveScripts: updateSiteInfo with the updater
\* that replaces active-scripts
StoreActiveScripts(name, server, client) ==
  /\ pc = "idle"
  /\ siteInfo' = [siteInfo EXCEPT !.activeScripts =
                    [server |-> DedupSort(server), client |-> DedupSort(client)]]
  /\ lastOp' = [Op(name, "ok", "-", FALSE) EXCEPT !.args = <<server, client>>]
  /\ UNCHANGED << remote, serverDir, clientDir, snapshot, cleanSince >>
  /\ IdleFrame

\* ScriptSynchronizer.setActiveScripts called by a command
SetActiveScripts(server, client) == StoreActiveScripts("setActive", server, client)

\* ScriptSynchronizer.clearActiveScripts
ClearActiveScripts == StoreActiveScripts("clearActive", <<>>, <<>>)

(************************ environment **************************************)
\* the user saves a file, or creates a directory, in a managed directory
UserSave(e) ==
  /\ pc = "idle"
  /\ IF e.variant = "server"
     THEN /\ CanWrite(serverDir, e.name, TRUE)
          /\ serverDir' = With(serverDir, e.name, e.entry)
          /\ UNCHANGED clientDir
     ELSE /\ CanWrite(clientDir, e.name, TRUE)
          /\ clientDir' = With(clientDir, e.name, e.entry)
          /\ UNCHANGED serverDir
  /\ lastOp' = Op("userSave", "ok", "-", FALSE)
  /\ cleanSince' = FALSE
  /\ UNCHANGED << remote, snapshot, siteInfo >>
  /\ IdleFrame

\* another user changes the scripts held by the remote store
RemoteEdit(data) ==
  /\ pc = "idle"
  /\ data # remote
  /\ remote' = data
  /\ lastOp' = Op("remoteEdit", "ok", "-", FALSE)
  /\ cleanSince' = FALSE
  /\ UNCHANGED << serverDir, clientDir, snapshot, siteInfo >>
  /\ IdleFrame

(************************ specification ************************************)
Next ==
  \/ \E ok \in Outcomes : PullFetch(ok)
  \/ PullSnapshot
  \/ \E ok \in Outcomes : PullWriteServer(ok)
  \/ \E ok \in Outcomes : PullWriteClient(ok)
  \/ PullCleanServer
  \/ PullCleanClient
  \/ PullFinish
  \/ \E i \in PushInputs :
       Push(i.dryRun, i.force, i.required, i.answer, i.fetchOk, i.updateOk)
  \/ \E a \in ActiveInputs : SetActiveScripts(a.server, a.client)
  \/ ClearActiveScripts
  \/ \E e \in UserEdits : UserSave(e)
  \/ \E d \in RemotePresets : RemoteEdit(d)

Spec == Init /\ [][Next]_vars

(************************ codec round trip *********************************)
\* records handed to the encoder: every combination of a trigger flag,
\* shared, functionalize and try-catch for a server script, every
\* combination of the five client flags, over several bodies
CodecInputs ==
  { [variant |-> "server",
     rec |-> normalizeServerScript(
               [Id |-> 1, Title |-> <<"A">>, Name |-> <<"A">>, Body |-> b]
               @@ [k \in F |-> TRUE])] :
      F \in SUBSET {"ServerScriptBeforeCreate", "ServerScriptShared",
                    "Functionalize", "TryCatch"},
      b \in {BodyX, BodyXnl, BodyY} }
  \cup
  { [variant |-> "client",
     rec |-> normalizeClientScript(
               [Id |-> 2, Title |-> <<"C">>, Body |-> b] @@ [k \in F |-> TRUE])] :
      F \in SUBSET ClientFlagKeys, b \in {BodyX, BodyY} }

CodecInit ==
  /\ SyncInit
  /\ DiffOff
  /\ FileOff
  /\ SiteOff
  /\ AdminOff
  /\ codecPc = "in"
  /\ codecIn \in CodecInputs
  /\ codecText = << <<>> >>
  /\ codecOut = codecIn.rec

\* writeServerScriptFile / writeScriptFile: the text of the file
CodecEncode ==
  /\ codecPc = "in"
  /\ codecText' = IF codecIn.variant = "server"
                  THEN serverScriptContent(codecIn.rec)
                  ELSE scriptContent(codecIn.rec)
  /\ codecPc' = "text"
  /\ UNCHANGED << codecIn, codecOut >>
  /\ UNCHANGED << remote, serverDir, clientDir, snapshot, siteInfo, lastSync, clock,
                  pc, pullData, writtenServer, writtenClient, lastOp, lastCall,
                  prePull, again, cleanSince, pushedStored, diffVars, fileVars, siteVars, adminVars >>

\* parseServerScript / parseClientScript on the file pull would have
\* written, without a snapshot to layer on
CodecDecode ==
  /\ codecPc = "text"
  /\ codecOut' = IF codecIn.variant = "server"
                 THEN parseServerScript(scriptFileName(codecIn.rec), codecText, <<>>).script
                 ELSE parseClientScript(scriptFileName(codecIn.rec), codecText, <<>>).script
  /\ codecPc' = "out"
  /\ UNCHANGED << codecIn, codecText >>
  /\ UNCHANGED << remote, serverDir, clientDir, snapshot, siteInfo, lastSync, clock,
                  pc, pullData, writtenServer, writtenClient, lastOp, lastCall,
                  prePull, again, cleanSince, pushedStored, diffVars, fileVars, siteVars, adminVars >>

NextCodec == CodecEncode \/ CodecDecode

SpecCodec == CodecInit /\ [][NextCodec]_vars

(************************ diff *********************************************)
\* the sequences that list every element of a set once: the orders in which
\* readdir may list a directory
Orderings(S) ==
  { f \in [1..Cardinality(S) -> S] :
      \A i, j \in 1..Cardinality(S) : f[i] = f[j] => i = j }

\* diff ends before it has built entries
DiffFails(stage) ==
  /\ lastOp' = Op("diff", "error", stage, FALSE)
  /\ diffIn' = NoDiffInput
  /\ diffOut' = <<>>

\* diff, lines 167-173: the four lists and the entries built from them;
\* choosing an entry opens two documents and changes nothing
DiffBuilds(localServer, localClient) ==
  /\ diffIn' = [remoteServers |-> normalizeServerScripts(remote),
                remoteClients |-> normalizeClientScripts(remote),
                localServer |-> localServer,
                localClient |-> localClient]
  /\ diffOut' = buildDiffEntries(normalizeServerScripts(remote),
                                 normalizeClientScripts(remote),
                                 localServer, localClient)
  /\ lastOp' = Op("diff", IF diffOut' = <<>> THEN "noop" ELSE "ok", "-", FALSE)

\* ScriptSynchronizer.diff: requireSite, the live fetch, the local scan
\* without a snapshot to layer on, buildDiffEntries
Diff(renameOk, fetchOk) ==
  /\ pc = "idle"
  /\ sites' = getSites(sites, renameOk).store
  /\ IF ~getSites(sites, renameOk).config.listed THEN DiffFails("site")
     ELSE IF ~fetchOk THEN DiffFails("fetch")
     ELSE IF ReadThrows THEN DiffFails("scan")
     ELSE \E ls \in Orderings(collectLocalServerScripts(
                                 safeReadDir(serverDir, fault.server).entries, <<>>)) :
          \E lc \in Orderings(collectLocalClientScripts(
                                 safeReadDir(clientDir, fault.client).entries, <<>>)) :
            DiffBuilds(ls, lc)
  /\ UNCHANGED << remote, serverDir, clientDir, snapshot, siteInfo, lastSync, clock,
                  pc, pullData, writtenServer, writtenClient, lastCall,
                  prePull, again, cleanSince, pushedStored, codecVars, fileVars, siteVars, adminVars >>

\* a file as pull writes it for a remote record
PulledServerFile(dir, raw) ==
  WriteFile(dir, scriptFileName(normalizeServerScript(raw)),
            serverScriptContent(normalizeServerScript(raw)))

PulledClientFile(dir, raw) ==
  WriteFile(dir, scriptFileName(normalizeClientScript(raw)),
            scriptContent(normalizeClientScript(raw)))

\* file names and texts a user leaves in a managed directory
Name42 == <<"4", "2", "_", "MyScript", ".js">>

NameDraft == <<"new", "_", "Draft", ".js">>

NameCopy == <<"1", "_", "Old", ".js">>

NameBare == <<"1", ".js">>

BodyOnly == << <<"z">> >>

ServerT == [Id |-> 3, Title |-> <<"T">>, Body |-> BodyX]

ServerU == [Title |-> <<"U">>, Name |-> <<"U">>, Body |-> BodyX, Shared |-> TRUE]

\* what the remote store may hold when diff fetches
DiffRemotes ==
  RemotePresets \cup
  { NoSiteData,
    [ServerScripts |-> <<ServerT, ServerA, ServerU, ServerB>>, Scripts |-> <<ClientD, ClientC>>] }

\* what the server-script directory may hold when diff scans it
DiffServerDirs ==
  { EmptyDir,
    PulledServerFile(PulledServerFile(EmptyDir, ServerA), ServerB),
    WriteFile(PulledServerFile(EmptyDir, ServerA), NameCopy, BodyOnly),
    WriteFile(WriteFile(EmptyDir, Name42, BodyOnly), NameDraft, BodyOnly),
    WriteFile(PulledServerFile(EmptyDir, ServerT), NameBare, BodyOnly),
    WriteFile(WriteFile(PulledServerFile(EmptyDir, ServerB), NameDraft,
                        << HeaderLine("id", <<"3">>), <<>>, <<"z">> >>),
              <<"notes", ".txt">>, BodyOnly) }

\* what the client-script directory may hold when diff scans it
DiffClientDirs ==
  { EmptyDir,
    PulledClientFile(PulledClientFile(EmptyDir, ClientC), ClientD),
    WriteFile(WriteFile(EmptyDir, Name42, BodyOnly), NameDraft, BodyOnly) }

\* what workspaceState and site.json may hold when diff starts
SitesInputs ==
  { SettledSites,
    [state |-> <<>>, file |-> << SiteConfig(TRUE, "expected") >>],
    [state |-> << SiteConfig(TRUE, "absent") >>, file |-> << SiteConfig(TRUE, "absent") >>],
    [state |-> << SiteConfig(TRUE, "stale") >>, file |-> << SiteConfig(TRUE, "stale") >>],
    [state |-> <<>>, file |-> <<>>] }

\* a site whose directories hold pulled and hand-made files
DiffInit ==
  /\ remote \in DiffRemotes
  /\ serverDir \in DiffServerDirs
  /\ clientDir \in DiffClientDirs
  /\ snapshot = <<>>
  /\ siteInfo = DefaultSiteInfo
  /\ lastSync = 0
  /\ clock = 0
  /\ pc = "idle"
  /\ pullData = NoSiteData
  /\ writtenServer = <<>>
  /\ writtenClient = <<>>
  /\ lastOp = Op("init", "ok", "-", FALSE)
  /\ lastCall = <<>>
  /\ prePull = NoDirs
  /\ again = FALSE
  /\ cleanSince = FALSE
  /\ pushedStored = NothingStored
  /\ sites \in SitesInputs
  /\ diffIn = NoDiffInput
  /\ diffOut = <<>>
  /\ CodecOff
  /\ FileOff
  /\ SiteOff
  /\ AdminOff

NextDiff == \E renameOk \in BOOLEAN, fetchOk \in Outcomes : Diff(renameOk, fetchOk)

SpecDiff == DiffInit /\ [][NextDiff]_vars

(************************ paths ********************************************)
\* Paths are texts; "/" is the separator.  getSiteDir, getServerScriptDir
\* and getClientScriptDir: path.join(siteDir, 'server-script') and
\* path.join(siteDir, 'client-script').
SiteDirPath == <<"site">>

ServerDirPath == SiteDirPath \o <<"/", "server-script">>

ClientDirPath == SiteDirPath \o <<"/", "client-script">>

\* a directory next to server-script whose name begins with its name
SiblingDirPath == SiteDirPath \o <<"/", "server-script", "-old">>

\* path.join(dir, name)
PathIn(dirPath, name) == dirPath \o <<"/">> \o name

\* String.prototype.startsWith
StartsWith(p, prefix) ==
  /\ Len(p) >= Len(prefix)
  /\ SubSeq(p, 1, Len(prefix)) = prefix

\* index of the last separator of a path, 0 when it has none
LastSeparator(p) ==
  IF \E i \in 1..Len(p) : p[i] = "/"
  THEN CHOOSE i \in 1..Len(p) : p[i] = "/" /\ \A j \in (i + 1)..Len(p) : p[j] # "/"
  ELSE 0

\* path.dirname
Dirname(p) == SubSeq(p, 1, LastSeparator(p) - 1)

\* path.basename
Basename(p) == SubSeq(p, LastSeparator(p) + 1, Len(p))

\* what the sibling directory holds: a copy of a pulled script
SiblingDir == WriteFile(EmptyDir, <<"1", "_", "A", ".js">>, serverScriptContent(normalizeServerScript(ServerN)))

\* a directory outside the site directory, and the script it holds
TmpDirPath == <<"tmp">>

TmpDir == WriteFile(EmptyDir, <<"notes", ".js">>, << <<"z">> >>)

\* the directory a path lies in directly, as the file system resolves it
DirAt(p, sDir, cDir) ==
  IF Dirname(p) = ServerDirPath THEN sDir
  ELSE IF Dirname(p) = ClientDirPath THEN cDir
  ELSE IF Dirname(p) = SiblingDirPath THEN SiblingDir
  ELSE IF Dirname(p) = TmpDirPath THEN TmpDir
  ELSE EmptyDir

\* fs.readFile(path) succeeds
Readable(p, sDir, cDir) ==
  /\ Basename(p) \in DOMAIN DirAt(p, sDir, cDir)
  /\ DirAt(p, sDir, cDir)[Basename(p)].kind = "file"

\* the text fs.readFile(path) gives
ReadPath(p, sDir, cDir) == DirAt(p, sDir, cDir)[Basename(p)].text

(************************ pushFile *****************************************)
\* pushFile, line 135: the path is under neither managed directory
NotManaged(p) == ~StartsWith(p, ServerDirPath) /\ ~StartsWith(p, ClientDirPath)

\* pushFile, lines 145-151: the record parsed from the file, by the branch
\* the prefix test takes
pushFileRecord(p, sDir, cDir, snap) ==
  IF StartsWith(p, ServerDirPath)
  THEN [variant |-> "server",
        local |-> parseServerScript(Basename(p), ReadPath(p, sDir, cDir),
                                    loadExistingScriptMaps(snap).server)]
  ELSE [variant |-> "client",
        local |-> parseClientScript(Basename(p), ReadPath(p, sDir, cDir),
                                    loadExistingScriptMaps(snap).client)]

\* OwlanterApiClient.addServerScript and addScript as seen by the store
addScriptCall(store, rec) ==
  IF rec.variant = "server"
  THEN batchUpdateScripts(store, {}, {rec.local.script})
  ELSE batchUpdateScripts(store, {rec.local.script}, {})

(************************ handlers *****************************************)
NoActive == [server |-> <<>>, client |-> <<>>]

\* a handler that has reached updateSiteInfo
UpdateTask(kind, path, server, client, seen) ==
  [pc |-> "update", kind |-> kind, path |-> path,
   server |-> server, client |-> client, seen |-> seen, info |-> DefaultSiteInfo]

\* what the steps of the handlers leave alone
FileFrame ==
  UNCHANGED << serverDir, clientDir, snapshot, pc, pullData, writtenServer,
               writtenClient, prePull, again, cleanSince, pushedStored,
               codecVars, diffVars, siteVars, adminVars >>

\* a handler is called: the time moves on
Begins(s) ==
  /\ tasks[s].pc = "idle"
  /\ clock < MaxClock
  /\ clock' = clock + 1

\* FileWatcher.start: a watcher in place is closed first
WatchStart ==
  /\ watcher = <<>>
  /\ watcher' = << "site" >>
  /\ lastOp' = Op("watchStart", "ok", "-", FALSE)
  /\ lastCall' = <<>>
  /\ UNCHANGED << remote, siteInfo, lastSync, clock, tasks, reported, lost >>
  /\ FileFrame

\* FileWatcher.stop
WatchStop ==
  /\ watcher # <<>>
  /\ watcher' = <<>>
  /\ lastOp' = Op("watchStop", "ok", "-", FALSE)
  /\ lastCall' = <<>>
  /\ UNCHANGED << remote, siteInfo, lastSync, clock, tasks, reported, lost >>
  /\ FileFrame

\* the handler a pushFile belongs to: the change handler of the watcher or
\* another caller
PushKind(auto) == IF auto THEN "autoPush" ELSE "pushFile"

\* pushFile, lines 135-140: nothing to do for the path
PushFileSkips(s, auto) ==
  /\ lastOp' = Op(PushKind(auto), "noop", "-", FALSE)
  /\ lastCall' = <<>>
  /\ UNCHANGED << remote, siteInfo, lastSync, tasks, watcher, reported, lost >>

\* a handler that stops watching when pushFile throws
PushFileThrowsAndStops(s, auto) ==
  /\ lastOp' = Op(PushKind(auto), "error", "-", FALSE)
  /\ lastCall' = <<>>
  /\ reported' = IF auto THEN reported + 1 ELSE reported
  /\ watcher' = IF auto THEN <<>> ELSE watcher
  /\ UNCHANGED << remote, siteInfo, lastSync, tasks, lost >>

\* pushFile throws; the change handler of the watcher catches what it throws
\* and shows an error message, another caller gets the error
PushFileThrows(s, auto) ==
  /\ lastOp' = Op(PushKind(auto), "error", "-", FALSE)
  /\ lastCall' = <<>>
  /\ reported' = IF auto THEN reported + 1 ELSE reported
  /\ UNCHANGED << remote, siteInfo, lastSync, tasks, watcher, lost >>

\* pushFile sends only a record whose id is in the active list of its variant
PushFileSendsActiveOnly(s, p, auto) ==
  LET rec == pushFileRecord(p, serverDir, clientDir, snapshot)
  IN IF rec.local.id \in Range(getActiveScriptIds(siteInfo)[rec.variant])
     THEN /\ remote' = addScriptCall(remote, rec)
          /\ lastCall' = << rec >>
          /\ tasks' = [tasks EXCEPT ![s] =
               UpdateTask(PushKind(auto), p, <<>>, <<>>, NoActive)]
          /\ lastOp' = Op(PushKind(auto), "sent", "-", FALSE)
          /\ UNCHANGED << siteInfo, lastSync, watcher, reported, lost >>
     ELSE PushFileSkips(s, auto)

\* pushFile, lines 142-151: the record of the file goes to the remote store
PushFileSends(s, p, auto) ==
  LET rec == pushFileRecord(p, serverDir, clientDir, snapshot)
  IN /\ remote' = addScriptCall(remote, rec)
     /\ lastCall' = << rec >>
     /\ tasks' = [tasks EXCEPT ![s] =
          UpdateTask(PushKind(auto), p, <<>>, <<>>, NoActive)]
     /\ lastOp' = Op(PushKind(auto), "sent", "-", FALSE)
     /\ UNCHANGED << siteInfo, lastSync, watcher, reported, lost >>

\* ScriptSynchronizer.pushFile up to the remote call, for a site that
\* requireSite finds; sendOk is the outcome of the remote call, auto tells
\* the call made by the watcher
PushFileBegin(s, p, sendOk, auto) ==
  /\ Begins(s)
  /\ IF NotManaged(p) THEN PushFileSkips(s, auto)
     ELSE IF ~Readable(p, serverDir, clientDir) \/ ~sendOk THEN PushFileThrows(s, auto)
     ELSE PushFileSends(s, p, auto)
  /\ FileFrame

\* the files chokidar reports changes of: those under the watched paths
WatchedPaths ==
  { PathIn(ServerDirPath, n) : n \in DOMAIN serverDir } \cup
  { PathIn(ClientDirPath, n) : n \in DOMAIN clientDir }

\* the 'change' handler registered by FileWatcher.start
ChangeEvent(p, sendOk) ==
  /\ watcher # <<>>
  /\ p \in WatchedPaths
  /\ PushFileBegin("push", p, sendOk, TRUE)

\* pushFile called with a path of the caller's choosing
PushFileCall(p, sendOk) == PushFileBegin("push", p, sendOk, FALSE)

\* a toggle that adds the id to the list it read
ToggleListsKeepingAll(active, type, id) ==
  IF type = "server"
  THEN [server |-> IF id \in Range(active.server) THEN <<>> ELSE Append(active.server, id),
        client |-> active.client]
  ELSE [server |-> active.server,
        client |-> IF id \in Range(active.client) THEN <<>> ELSE Append(active.client, id)]

\* a toggle that leaves the list of the other variant as it read it
ToggleListsKeepingOther(active, type, id) ==
  LET nextServer == IF Len(active.server) > 0 THEN << active.server[1] >> ELSE <<>>
      nextClient == IF Len(active.client) > 0 THEN << active.client[1] >> ELSE <<>>
      target     == IF type = "server" THEN nextServer ELSE nextClient
      toggled    == IF id \in Range(target) THEN <<>> ELSE << id >>
  IN IF type = "server" THEN [server |-> toggled, client |-> active.client]
     ELSE [server |-> active.server, client |-> toggled]

\* owlanter.scriptSet on a tree node, lines 541-554: the lists it goes on to
\* set, from the active ids it read
ToggleLists(active, type, id) ==
  LET nextServer == IF Len(active.server) > 0 THEN << active.server[1] >> ELSE <<>>
      nextClient == IF Len(active.client) > 0 THEN << active.client[1] >> ELSE <<>>
      target     == IF type = "server" THEN nextServer ELSE nextClient
      toggled    == IF id \in Range(target) THEN <<>> ELSE << id >>
  IN IF type = "server" THEN [server |-> toggled, client |-> nextClient]
     ELSE [server |-> nextServer, client |-> toggled]

\* a command has read what it needs and goes on to setActiveScripts; the
\* slots are alike, a command takes the second while the first is taken
CommandBegin(s, kind, server, client, seen) ==
  /\ Begins(s)
  /\ s = "second" => tasks["first"].pc # "idle"
  /\ tasks' = [tasks EXCEPT ![s] = UpdateTask(kind, <<>>, server, client, seen)]
  /\ lastOp' = Op(kind, "begin", "-", FALSE)
  /\ lastCall' = <<>>
  /\ UNCHANGED << remote, siteInfo, lastSync, watcher, reported, lost >>
  /\ FileFrame

\* owlanter.scriptSet on a tree node up to its call of setActiveScripts
ToggleBegin(s, type, id) ==
  CommandBegin(s, "toggle",
               ToggleLists(getActiveScriptIds(siteInfo), type, id).server,
               ToggleLists(getActiveScriptIds(siteInfo), type, id).client,
               getActiveScriptIds(siteInfo))

\* owlanter.scriptSet from the palette with the scripts picked
SetBegin(s, server, client) == CommandBegin(s, "set", server, client, NoActive)

\* owlanter.scriptClear from the palette
ClearBegin(s) == CommandBegin(s, "clear", <<>>, <<>>, NoActive)

\* SiteManager.updateSiteInfo, line 571: readSiteInfo
UpdateRead(s) ==
  /\ tasks[s].pc = "update"
  /\ tasks' = [tasks EXCEPT ![s].pc = "save", ![s].info = siteInfo]
  /\ lastOp' = Op(tasks[s].kind, "read", "-", FALSE)
  /\ lastCall' = <<>>
  /\ UNCHANGED << remote, siteInfo, lastSync, clock, watcher, reported, lost >>
  /\ FileFrame

\* the updater a handler gives to updateSiteInfo, applied to a record
Updater(t, info, now) ==
  IF t.kind \in {"autoPush", "pushFile"}
  THEN [info EXCEPT !.lastPushed = now]
  ELSE [info EXCEPT !.activeScripts =
          [server |-> DedupSort(t.server), client |-> DedupSort(t.client)]]

\* an update that applies the updater to the record as it is when it saves
SavedOverCurrent(t, current, now) == Updater(t, current, now)

\* updateSiteInfo, lines 572-573: the updater runs on the record read and
\* the result is saved in the place of site-info.json as it is by then
Saved(t, current, now) == Updater(t, t.info, now)

\* what a save replaces without having seen it: a change of the active
\* lists or of last-pushed made after the record was read, or active lists
\* other than those a toggle computed its lists from
Overwrites(t, current) ==
  IF t.kind \in {"autoPush", "pushFile"}
  THEN (IF current.activeScripts # t.info.activeScripts THEN "activeScripts" ELSE "none")
  ELSE IF current.lastPushed # t.info.lastPushed THEN "lastPushed"
  ELSE IF t.kind = "toggle" /\ current.activeScripts # t.seen THEN "toggle"
  ELSE "none"

\* updateSiteInfo, line 573: saveSiteInfo, and what the handler does after
\* it; pushFile goes on to updateLastSync.  The slot keeps what its handler
\* was called with, not the record it read, until the next handler takes it.
UpdateSave(s) ==
  /\ tasks[s].pc = "save"
  /\ siteInfo' = Saved(tasks[s], siteInfo, clock)
  /\ lastSync' = IF tasks[s].kind \in {"autoPush", "pushFile"} THEN clock ELSE lastSync
  /\ lost' = IF Overwrites(tasks[s], siteInfo) # "none"
             THEN Overwrites(tasks[s], siteInfo) ELSE lost
  /\ tasks' = [tasks EXCEPT ![s].pc = "idle", ![s].info = DefaultSiteInfo]
  /\ lastOp' = Op(tasks[s].kind, "ok", "-", FALSE)
  /\ lastCall' = <<>>
  /\ UNCHANGED << remote, clock, watcher, reported >>
  /\ FileFrame

\* paths pushFile may be called with: a file of each managed directory, a
\* file of the sibling directory and a file elsewhere
PathInputs ==
  { PathIn(ServerDirPath, <<"1", "_", "A", ".js">>),
    PathIn(ClientDirPath, <<"1", "_", "C", ".js">>),
    PathIn(SiblingDirPath, <<"1", "_", "A", ".js">>),
    <<"tmp", "/", "notes", ".js">> }

\* the tree nodes a user may toggle
ToggleInputs == { <<"server", 3>>, <<"client", 1>> }

\* the slots commands run in
CommandSlots == {"first", "second"}

\* active lists a site may have been left with
FileActives == { NoActive, [server |-> <<3>>, client |-> <<3>>] }

\* a site pulled at time 1 whose active lists were chosen at time 2
FileInit ==
  /\ remote = [ServerScripts |-> <<ServerN>>, Scripts |-> <<ClientC>>]
  /\ serverDir = PulledServerFile(EmptyDir, ServerN)
  /\ clientDir = PulledClientFile(EmptyDir, ClientC)
  /\ snapshot = << remote >>
  /\ \E a \in FileActives :
       siteInfo = [lastPulled |-> 1, lastPushed |-> 0,
                   scriptsCount |-> [server |-> 1, client |-> 1],
                   activeScripts |-> a]
  /\ lastSync = 1
  /\ clock = 2
  /\ pc = "idle"
  /\ pullData = NoSiteData
  /\ writtenServer = <<>>
  /\ writtenClient = <<>>
  /\ lastOp = Op("init", "ok", "-", FALSE)
  /\ lastCall = <<>>
  /\ prePull = NoDirs
  /\ again = FALSE
  /\ cleanSince = FALSE
  /\ pushedStored = NothingStored
  /\ CodecOff
  /\ DiffOff
  /\ FileOff
  /\ SiteOff
  /\ AdminOff

NextFile ==
  \/ WatchStart
  \/ WatchStop
  \/ \E p \in WatchedPaths, ok \in Outcomes : ChangeEvent(p, ok)
  \/ \E p \in PathInputs, ok \in Outcomes : PushFileCall(p, ok)
  \/ \E s \in CommandSlots, t \in ToggleInputs : ToggleBegin(s, t[1], t[2])
  \/ \E s \in CommandSlots, a \in ActiveInputs : SetBegin(s, a.server, a.client)
  \/ \E s \in CommandSlots : ClearBegin(s)
  \/ \E s \in Slots : UpdateRead(s)
  \/ \E s \in Slots : UpdateSave(s)

SpecFile == FileInit /\ [][NextFile]_vars

(************************ local scan ***************************************)
\* every variable but lastOp and listing
ListFrame ==
  UNCHANGED << remote, serverDir, clientDir, snapshot, siteInfo, lastSync, clock,
               pc, pullData, writtenServer, writtenClient, lastCall, prePull,
               again, cleanSince, pushedStored, codecVars, diffVars, fileVars,
               currentSite, fault, siteCall, adminVars >>

\* how a listing ended, for the variant it was asked for
ListOp(type, result) == [Op("list", result, "-", FALSE) EXCEPT !.args = << type >>]

\* ScriptSynchronizer.listLocalServerScripts / listLocalClientScripts
ListLocal(type) ==
  /\ pc = "idle"
  /\ LET read == IF type = "server" THEN safeReadDir(serverDir, fault.server)
                 ELSE safeReadDir(clientDir, fault.client)
         maps == loadExistingScriptMaps(snapshot)
     IN IF read.error
        THEN /\ listing' = <<>>
             /\ lastOp' = ListOp(type, "error")
        ELSE /\ listing' =
                  << [type |-> type,
                      scripts |-> IF type = "server"
                                  THEN collectLocalServerScripts(read.entries, maps.server)
                                  ELSE collectLocalClientScripts(read.entries, maps.client)] >>
             /\ lastOp' = ListOp(type, "ok")
  /\ ListFrame

\* records with id 0 and flags set, as a pull left them in the snapshot
ServerZ == [Id |-> 0, Title |-> <<"Z">>, Name |-> <<"Zn">>, Body |-> BodyX,
            ServerScriptShared |-> TRUE, ServerScriptBeforeUpdate |-> TRUE]

ClientZ == [Id |-> 0, Title |-> <<"Y">>, Body |-> BodyX, ScriptNew |-> TRUE]

ScanSiteData ==
  [ServerScripts |-> <<ServerZ, ServerA, ServerB>>, Scripts |-> <<ClientZ, ClientC>>]

NameZero == <<"0", "_", "Z", ".js">>

NameOne == <<"1", "_", "A", ".js">>

NameTwo == <<"2", "_", "B", ".js">>

NameNotes == <<"notes", ".js">>

\* a file text with the given header lines
WithHeader(lines) == lines \o << <<>>, <<"z">> >>

\* files a user may have left in the server-script directory: named after
\* id 0, a header id 0 under a name without id, a header id other than the
\* one of the name, a header that declares a title and flags, a header id
\* that is not a number, a name after an id the snapshot lacks, no id at all
ScanServerFiles ==
  { [name |-> NameZero, text |-> BodyOnly],
    [name |-> NameDraft, text |-> WithHeader(<< HeaderLine("id", <<"0">>) >>)],
    [name |-> NameOne, text |-> WithHeader(<< HeaderLine("id", <<"2">>) >>)],
    [name |-> NameOne,
     text |-> WithHeader(<< HeaderLine("title", <<"T">>),
                            HeaderLine("before-create", <<"false">>),
                            HeaderLine("shared", <<"true">>),
                            HeaderLine("try-catch", <<"true">>) >>)],
    [name |-> NameTwo, text |-> WithHeader(<< HeaderLine("id", <<"abc">>) >>)],
    [name |-> NameTwo, text |-> WithHeader(<< HeaderLine("name", <<"N">>) >>)],
    [name |-> <<"3", "_", "New", ".js">>, text |-> BodyOnly],
    [name |-> NameNotes, text |-> BodyOnly] }

ScanServerDirs ==
  { WriteFile(EmptyDir, f.name, f.text) : f \in ScanServerFiles } \cup
  { WriteFile(WriteFile(EmptyDir, NameZero, BodyOnly), NameOne, BodyOnly),
    WriteFile(WriteFile(EmptyDir, NameNotes, BodyOnly), NameDraft,
              WithHeader(<< HeaderLine("id", <<"0">>) >>)) }

ScanClientDirs ==
  { EmptyDir,
    WriteFile(EmptyDir, <<"0", "_", "Y", ".js">>, BodyOnly),
    WriteFile(WriteFile(EmptyDir, <<"1", "_", "C", ".js">>,
                        WithHeader(<< HeaderLine("all", <<"false">>),
                                      HeaderLine("edit", <<"true">>) >>)),
              NameDraft, WithHeader(<< HeaderLine("id", <<"0">>) >>)) }

ScanActives ==
  { NoActive,
    [server |-> <<0>>, client |-> <<0>>],
    [server |-> <<1, 2>>, client |-> <<1>>] }

\* directory reads that fail: a directory that does not exist, both, an
\* unreadable one
ScanFaults ==
  { [server |-> "ENOENT", client |-> "none"],
    [server |-> "ENOENT", client |-> "ENOENT"],
    [server |-> "none", client |-> "EACCES"] }

\* what a directory holds that was never made
DirUnder(f, dir) == IF f = "ENOENT" THEN EmptyDir ELSE dir

\* a pulled site whose directories hold files a user left, or some of whose
\* directories are gone or unreadable
ScanInit ==
  /\ remote = ScanSiteData
  /\ \/ /\ fault = NoFault
        /\ serverDir \in ScanServerDirs
        /\ clientDir \in ScanClientDirs
     \/ /\ fault \in ScanFaults
        /\ serverDir = DirUnder(fault.server, WriteFile(EmptyDir, NameZero, BodyOnly))
        /\ clientDir = DirUnder(fault.client, WriteFile(EmptyDir, NameOne, BodyOnly))
  /\ snapshot \in { <<>>, << ScanSiteData >> }
  /\ \E a \in ScanActives :
       siteInfo = [lastPulled |-> 1, lastPushed |-> 0,
                   scriptsCount |-> [server |-> 3, client |-> 2],
                   activeScripts |-> a]
  /\ lastSync = 1
  /\ clock = 2
  /\ pc = "idle"
  /\ pullData = NoSiteData
  /\ writtenServer = <<>>
  /\ writtenClient = <<>>
  /\ lastOp = Op("init", "ok", "-", FALSE)
  /\ lastCall = <<>>
  /\ prePull = NoDirs
  /\ again = FALSE
  /\ cleanSince = FALSE
  /\ pushedStored = NothingStored
  /\ CodecOff
  /\ DiffOff
  /\ FileOff
  /\ AdminOff
  /\ currentSite = 1
  /\ listing = <<>>
  /\ siteCall = NoSiteCall

NextScan ==
  \/ \E type \in {"server", "client"} : ListLocal(type)
  \/ Push(FALSE, FALSE, FALSE, "Push", TRUE, TRUE)
  \/ Diff(TRUE, TRUE)

SpecScan == ScanInit /\ [][NextScan]_vars

(************************ commands on a site *******************************)
\* The variables of the engine hold the data of the site that requireSite
\* finds without a site id, the current site; of the other registered site
\* only the id is modelled.

\* what the commands below leave alone
SiteFrame ==
  /\ PullLocalsGone
  /\ UNCHANGED << serverDir, clientDir, snapshot, pc, codecVars, diffVars, fileVars,
                  currentSite, fault, listing, adminVars >>

\* owlanter.push of a site node with id S: push({ dryRun | force, siteId: S }).
\* push reads dryRun and force of its options and calls requireSite()
\* without an id
PushSite(S, dryRun, force, required, answer, fetchOk, updateOk) ==
  /\ pc = "idle"
  /\ clock < MaxClock
  /\ SiteFrame
  /\ IF requireSite(<<>>, currentSite) = NullId
     THEN PushWithoutUpdate("error", dryRun)
     ELSE IF dryRun THEN PushDryRun(fetchOk)
     ELSE PushReal(dryRun, force, required, answer, updateOk)
  /\ siteCall' = [asked |-> << S >>,
                  site |-> IF lastCall' # <<>> THEN requireSite(<<>>, currentSite)
                           ELSE NullId]

\* String.prototype.includes for a path and a name that is one token
Includes(p, token) == \E i \in 1..Len(p) : p[i] = token

\* upload, lines 210-232: the variant a path is uploaded as, "none" when it
\* is skipped; type is <<>> without a hint, pick is what the user chooses
\* in the quick pick
TargetType(p, type, pick) ==
  IF type # <<>> THEN type[1]
  ELSE IF Includes(p, "server-script") THEN "server"
  ELSE IF Includes(p, "client-script") THEN "client"
  ELSE pick

\* upload, lines 234-240: the records parsed for one variant, each with the
\* path it was parsed from
Uploads(paths, type, pick, variant) ==
  { [path |-> paths[i],
     script |-> IF variant = "server"
                THEN parseServerScript(Basename(paths[i]),
                                       ReadPath(paths[i], serverDir, clientDir), <<>>).script
                ELSE parseClientScript(Basename(paths[i]),
                                       ReadPath(paths[i], serverDir, clientDir), <<>>).script] :
      i \in { j \in 1..Len(paths) : TargetType(paths[j], type, pick) = variant } }

\* how an upload ended, with the paths, the hint and the choice it was given
UploadOp(result, paths, type, pick) ==
  [Op("upload", result, "-", FALSE) EXCEPT !.args = << paths, type, pick >>]

\* an upload that marks the site as pushed although it sent nothing
UploadEndsMarkingPushed(S, result, paths, type, pick) ==
  /\ lastOp' = UploadOp(result, paths, type, pick)
  /\ lastCall' = <<>>
  /\ pushedStored' = NothingStored
  /\ clock' = clock + 1
  /\ siteCall' = [asked |-> << S >>, site |-> NullId]
  /\ siteInfo' = [siteInfo EXCEPT !.lastPushed = clock + 1]
  /\ lastSync' = clock + 1
  /\ UNCHANGED << remote, cleanSince >>

\* upload returns or throws before the update call has succeeded
UploadEnds(S, result, paths, type, pick) ==
  /\ lastOp' = UploadOp(result, paths, type, pick)
  /\ lastCall' = <<>>
  /\ pushedStored' = NothingStored
  /\ clock' = clock + 1
  /\ siteCall' = [asked |-> << S >>, site |-> NullId]
  /\ UNCHANGED << remote, siteInfo, lastSync, cleanSince >>

\* upload, lines 248-253: the update call and what follows it
UploadSends(S, site, paths, type, pick) ==
  LET serverUploads == Uploads(paths, type, pick, "server")
      clientUploads == Uploads(paths, type, pick, "client")
      stored == batchUpdateScripts(remote, { u.script : u \in clientUploads },
                                   { u.script : u \in serverUploads })
  IN /\ \A r \in Range(stored.ServerScripts) \cup Range(stored.Scripts) : r.Id <= MaxId
     /\ remote' = stored
     /\ lastCall' = << [server |-> serverUploads, client |-> clientUploads] >>
     /\ pushedStored' = NothingStored
     /\ siteInfo' = [siteInfo EXCEPT !.lastPushed = clock + 1]
     /\ lastSync' = clock + 1
     /\ clock' = clock + 1
     /\ siteCall' = [asked |-> << S >>, site |-> site]
     /\ lastOp' = UploadOp("ok", paths, type, pick)
     /\ cleanSince' = FALSE

\* owlanter.upload for site S: upload(paths, type, S).  upload has the
\* parameters paths and type and calls requireSite() without an id;
\* updateOk is the outcome of batchUpdateScripts
Upload(S, paths, type, pick, updateOk) ==
  /\ pc = "idle"
  /\ clock < MaxClock
  /\ SiteFrame
  /\ IF requireSite(<<>>, currentSite) = NullId
     THEN UploadEnds(S, "error", paths, type, pick)
     ELSE IF Len(paths) = 0
     THEN UploadEnds(S, "noop", paths, type, pick)
     ELSE IF \E i \in 1..Len(paths) :
               /\ TargetType(paths[i], type, pick) # "none"
               /\ ~Readable(paths[i], serverDir, clientDir)
     THEN UploadEnds(S, "error", paths, type, pick)
     ELSE IF \A i \in 1..Len(paths) : TargetType(paths[i], type, pick) = "none"
     THEN UploadEnds(S, "noop", paths, type, pick)
     ELSE IF ~updateOk
     THEN UploadEnds(S, "error", paths, type, pick)
     ELSE UploadSends(S, requireSite(<<>>, currentSite), paths, type, pick)

\* a client script a user named after what it helps with
NameHelper == <<"2", "_", "server-script", "-helper", ".js">>

PathServerA == PathIn(ServerDirPath, <<"1", "_", "A", ".js">>)

PathClientC == PathIn(ClientDirPath, <<"1", "_", "C", ".js">>)

PathHelper == PathIn(ClientDirPath, NameHelper)

PathNotes == PathIn(TmpDirPath, <<"notes", ".js">>)

PathGone == PathIn(ClientDirPath, <<"9", "_", "Gone", ".js">>)

\* what upload may be called with
UploadInputs ==
  { [paths |-> ps, type |-> <<>>, pick |-> "none"] :
      ps \in { <<>>, << PathHelper >>, << PathServerA, PathClientC >>,
               << PathClientC, PathNotes >>, << PathGone >> } }
  \cup { [paths |-> << PathNotes >>, type |-> <<>>, pick |-> "server"],
         [paths |-> << PathClientC >>, type |-> << "server" >>, pick |-> "none"] }

\* the options the command gives push, what the environment requires and
\* what the user answers to the prompt: 'Push', 'Cancel', or "none" for a
\* prompt that is dismissed
SitePushInputs ==
  { i \in [dryRun : BOOLEAN, force : BOOLEAN, required : BOOLEAN,
           answer : {"Push", "Cancel", "none"}, fetchOk : BOOLEAN, updateOk : BOOLEAN] :
      /\ i.dryRun => (~i.force /\ ~i.required /\ i.updateOk)
      /\ ~i.dryRun => i.fetchOk
      /\ ~i.required => (~i.force /\ i.answer = "Push")
      /\ i.required => i.updateOk }

\* a pulled site among two registered sites, selected or not
SiteInit ==
  /\ remote = [ServerScripts |-> <<ServerN>>, Scripts |-> <<ClientC>>]
  /\ fault = NoFault
  /\ serverDir = PulledServerFile(EmptyDir, ServerN)
  /\ clientDir = WriteFile(PulledClientFile(EmptyDir, ClientC), NameHelper, BodyOnly)
  /\ snapshot = << remote >>
  /\ \E a \in FileActives :
       siteInfo = [lastPulled |-> 1, lastPushed |-> 0,
                   scriptsCount |-> [server |-> 1, client |-> 1],
                   activeScripts |-> a]
  /\ lastSync = 1
  /\ clock = 2
  /\ pc = "idle"
  /\ pullData = NoSiteData
  /\ writtenServer = <<>>
  /\ writtenClient = <<>>
  /\ lastOp = Op("init", "ok", "-", FALSE)
  /\ lastCall = <<>>
  /\ prePull = NoDirs
  /\ again = FALSE
  /\ cleanSince = FALSE
  /\ pushedStored = NothingStored
  /\ CodecOff
  /\ DiffOff
  /\ FileOff
  /\ AdminOff
  /\ currentSite \in {0, 1}
  /\ listing = <<>>
  /\ siteCall = NoSiteCall

NextSite ==
  \/ \E S \in KnownSites, i \in SitePushInputs :
       PushSite(S, i.dryRun, i.force, i.required, i.answer, i.fetchOk, i.updateOk)
  \/ \E S \in KnownSites, u \in UploadInputs, ok \in Outcomes :
       Upload(S, u.paths, u.type, u.pick, ok)
  \/ \E ok \in Outcomes : PushFileCall(PathServerA, ok)
  \/ UpdateRead("push")
  \/ UpdateSave("push")

SpecSite == SiteInit /\ [][NextSite]_vars

(************************ site registry ************************************)
\* The sites configuration with its list of sites: of a site its site-id and
\* its active flag; current-site and default-site, 0 when none.  A site
\* that addSite made has the folder-name createSiteFolderName gives, so
\* getSites and saveSites find nothing to rename.

\* the numbers the input box of the site-add command lets through (it
\* rejects what Number() turns into NaN) and the ids a site node may carry
SiteIds == {0, 1, 2}

\* config.sites.findIndex(s => s['site-id'] === siteId), counted from 1;
\* 0 when there is none
SiteIndex(config, siteId) ==
  IF \E i \in 1..Len(config.sites) : config.sites[i].id = siteId
  THEN CHOOSE i \in 1..Len(config.sites) : config.sites[i].id = siteId
  ELSE 0

\* how an operation on the registry ended, with what it was given
SitesOp(name, result, stage, given) ==
  [Op(name, result, stage, FALSE) EXCEPT !.args = given]

\* what the operations on the registry leave alone
RegistryFrame ==
  UNCHANGED << remote, serverDir, clientDir, snapshot, siteInfo, lastSync, clock,
               pc, pullData, writtenServer, writtenClient, lastCall, prePull,
               again, cleanSince, pushedStored, codecVars, diffVars, fileVars,
               siteVars, fileWatcher, chokidar, watchCalls, connection, configOut >>

\* an operation that throws before it has changed the configuration
RegistryThrows(name, stage, given) ==
  /\ lastOp' = SitesOp(name, "error", stage, given)
  /\ UNCHANGED sitesConfig

\* saveSites: persistSites updates workspaceState, which getSites reads
\* first, and then writes site.json; a failed write throws after the update
SaveSites(name, config, saveOk, given) ==
  /\ sitesConfig' = config
  /\ lastOp' = SitesOp(name, IF saveOk THEN "ok" ELSE "error",
                       IF saveOk THEN "-" ELSE "save", given)

\* SiteManager.selectSite
SelectSite(siteId, saveOk) ==
  /\ RegistryFrame
  /\ IF SiteIndex(sitesConfig, siteId) = 0
     THEN RegistryThrows("selectSite", "notFound", << siteId >>)
     ELSE SaveSites("selectSite",
                    [sitesConfig EXCEPT
                       !.sites = [i \in 1..Len(sitesConfig.sites) |->
                                    [id |-> sitesConfig.sites[i].id,
                                     active |-> sitesConfig.sites[i].id = siteId]],
                       !.current = siteId],
                    saveOk, << siteId >>)

\* SiteManager.addSite
AddSite(siteId, saveOk) ==
  /\ RegistryFrame
  /\ IF SiteIndex(sitesConfig, siteId) # 0
     THEN RegistryThrows("addSite", "exists", << siteId >>)
     ELSE LET first == Len(sitesConfig.sites) = 0
          IN SaveSites("addSite",
                       [sites |-> Append(sitesConfig.sites,
                                         [id |-> siteId, active |-> first]),
                        current |-> IF first THEN siteId ELSE sitesConfig.current,
                        default |-> IF first THEN siteId ELSE sitesConfig.default],
                       saveOk, << siteId >>)

\* the configuration removeSite saves once the user has answered Yes
Spliced(config, siteId) ==
  LET at   == SiteIndex(config, siteId)
      rest == SubSeq(config.sites, 1, at - 1)
              \o SubSeq(config.sites, at + 1, Len(config.sites))
      cur  == IF config.current = siteId THEN rest[1].id ELSE config.current
  IN IF Len(rest) = 0 THEN EmptySitesConfig
     ELSE [sites |-> [i \in 1..Len(rest) |->
                        [id |-> rest[i].id, active |-> rest[i].id = cur]],
           current |-> cur,
           default |-> IF config.default = siteId THEN rest[1].id
                       ELSE config.default]

\* removeSite without the question
RemoveSiteUnasked(siteId, answer, saveOk) ==
  /\ RegistryFrame
  /\ IF SiteIndex(sitesConfig, siteId) = 0
     THEN RegistryThrows("removeSite", "notFound", << siteId, answer >>)
     ELSE SaveSites("removeSite", Spliced(sitesConfig, siteId), saveOk,
                    << siteId, answer >>)

\* SiteManager.removeSite; answer is what the user chose in the modal
\* warning, "none" when it was dismissed
RemoveSite(siteId, answer, saveOk) ==
  /\ RegistryFrame
  /\ IF SiteIndex(sitesConfig, siteId) = 0
     THEN RegistryThrows("removeSite", "notFound", << siteId, answer >>)
     ELSE IF answer # "Yes"
     THEN /\ lastOp' = SitesOp("removeSite", "cancelled", "answer", << siteId, answer >>)
          /\ UNCHANGED sitesConfig
     ELSE SaveSites("removeSite", Spliced(sitesConfig, siteId), saveOk,
                    << siteId, answer >>)

\* the answers to the question of removeSite
RemoveAnswers == {"Yes", "No", "none"}

\* the engine at rest on a site without scripts
SyncOff ==
  /\ remote = NoSiteData
  /\ serverDir = EmptyDir
  /\ clientDir = EmptyDir
  /\ snapshot = <<>>
  /\ siteInfo = DefaultSiteInfo
  /\ lastSync = 0
  /\ clock = 0
  /\ pc = "idle"
  /\ pullData = NoSiteData
  /\ writtenServer = <<>>
  /\ writtenClient = <<>>
  /\ lastOp = Op("init", "ok", "-", FALSE)
  /\ lastCall = <<>>
  /\ prePull = NoDirs
  /\ again = FALSE
  /\ cleanSince = FALSE
  /\ pushedStored = NothingStored

\* a workspace without sites
SitesInit ==
  /\ SyncOff
  /\ CodecOff
  /\ DiffOff
  /\ FileOff
  /\ SiteOff
  /\ AdminOff

NextSites ==
  \/ \E siteId \in SiteIds, saveOk \in Outcomes : AddSite(siteId, saveOk)
  \/ \E siteId \in SiteIds, saveOk \in Outcomes : SelectSite(siteId, saveOk)
  \/ \E siteId \in SiteIds, answer \in RemoveAnswers, saveOk \in Outcomes :
       RemoveSite(siteId, answer, saveOk)

SpecSites == SitesInit /\ [][NextSites]_vars

(************************ file watcher calls *******************************)
\* FileWatcher.start and FileWatcher.stop are async: a call runs to its
\* next await, and calls of other callers run in between.  The only awaits
\* are the one on watcher.close() in stop and the one on stop() in start.
\* An underlying watcher counts as closed from the call of close() on.

\* the number of underlying watchers a run makes at most
MaxWatchers == 3

\* the site ids and the numbers of watch paths start is called with
WatchSites == {1, 2}

WatchPathCounts == {0, 2}

\* how a step of a call ended
WatchOp(name, result, stage, c) ==
  [Op(name, result, stage, FALSE) EXCEPT !.args = << c >>]

\* what the calls of the FileWatcher leave alone
WatchFrame ==
  UNCHANGED << remote, serverDir, clientDir, snapshot, siteInfo, lastSync, clock,
               pc, pullData, writtenServer, writtenClient, lastCall, prePull,
               again, cleanSince, pushedStored, codecVars, diffVars, fileVars,
               siteVars, sitesConfig, connection, configOut >>

\* the starts that have not yet reached chokidar.watch
PendingStarts ==
  { c \in Callers : watchCalls[c].pc \in {"startClosing", "startOpening"} }

\* stop up to its await: close() is called on the watcher in place
StopCloses(c, pcAfter, siteId, paths) ==
  /\ chokidar' = [chokidar EXCEPT !.open = @ \ { fileWatcher.watcher[1] }]
  /\ watchCalls' = [watchCalls EXCEPT ![c] =
                      [pc |-> pcAfter, siteId |-> siteId, paths |-> paths,
                       closing |-> fileWatcher.watcher]]
  /\ UNCHANGED fileWatcher

\* start from the test of watchPaths on: the warning, or activeSiteId and
\* a new underlying watcher
StartOpens(c, siteId, paths) ==
  /\ watchCalls' = [watchCalls EXCEPT ![c] = IdleCall]
  /\ IF paths = 0
     THEN /\ lastOp' = WatchOp("start", "noop", "paths", c)
          /\ UNCHANGED << fileWatcher, chokidar >>
     ELSE /\ lastOp' = WatchOp("start", "ok", "opened", c)
          /\ fileWatcher' = [watcher |-> << chokidar.made + 1 >>,
                             activeSiteId |-> siteId]
          /\ chokidar' = [made |-> chokidar.made + 1,
                          open |-> chokidar.open \cup { chokidar.made + 1 }]

\* FileWatcher.start is called
StartCall(c, siteId, paths) ==
  /\ watchCalls[c].pc = "idle"
  /\ chokidar.made + Cardinality(PendingStarts) < MaxWatchers
  /\ WatchFrame
  /\ IF fileWatcher.watcher # <<>>
     THEN /\ StopCloses(c, "startClosing", siteId, paths)
          /\ lastOp' = WatchOp("start", "pending", "closing", c)
     ELSE StartOpens(c, siteId, paths)

\* the stop that start awaits goes on behind its await
StartStopResumes(c) ==
  /\ watchCalls[c].pc = "startClosing"
  /\ WatchFrame
  /\ fileWatcher' = NotWatching
  /\ watchCalls' = [watchCalls EXCEPT ![c].pc = "startOpening"]
  /\ lastOp' = WatchOp("start", "pending", "closed", c)
  /\ UNCHANGED chokidar

\* start goes on behind its await of stop
StartResumes(c) ==
  /\ watchCalls[c].pc = "startOpening"
  /\ WatchFrame
  /\ StartOpens(c, watchCalls[c].siteId, watchCalls[c].paths)

\* FileWatcher.stop is called
StopCall(c) ==
  /\ watchCalls[c].pc = "idle"
  /\ WatchFrame
  /\ IF fileWatcher.watcher # <<>>
     THEN /\ StopCloses(c, "stopClosing", NullId, 0)
          /\ lastOp' = WatchOp("stop", "pending", "closing", c)
     ELSE /\ lastOp' = WatchOp("stop", "noop", "-", c)
          /\ UNCHANGED << fileWatcher, chokidar, watchCalls >>

\* stop goes on behind its await of close()
StopResumes(c) ==
  /\ watchCalls[c].pc = "stopClosing"
  /\ WatchFrame
  /\ fileWatcher' = NotWatching
  /\ watchCalls' = [watchCalls EXCEPT ![c] = IdleCall]
  /\ lastOp' = WatchOp("stop", "ok", "closed", c)
  /\ UNCHANGED chokidar

\* a FileWatcher as constructed
WatchInit ==
  /\ SyncOff
  /\ CodecOff
  /\ DiffOff
  /\ FileOff
  /\ SiteOff
  /\ AdminOff

NextWatch ==
  \/ \E c \in Callers, siteId \in WatchSites, paths \in WatchPathCounts :
       StartCall(c, siteId, paths)
  \/ \E c \in Callers : StartStopResumes(c)
  \/ \E c \in Callers : StartResumes(c)
  \/ \E c \in Callers : StopCall(c)
  \/ \E c \in Callers : StopResumes(c)

SpecWatch == WatchInit /\ [][NextWatch]_vars

(************************ pull over foreign entries ************************)
\* entries of a managed directory that pull did not make
NameLib == <<"lib">>

NameReadme == <<"README">>

NameNotesTxt == <<"notes", ".txt">>

NameOldJs == <<"old", ".js">>

NameGone == <<"3", "_", "Gone", ".js">>

\* a managed directory with a subdirectory, a subdirectory named like a
\* script, two files that are not scripts and a script no remote record has
ForeignDir ==
  WriteFile(
    WriteFile(
      WriteFile(With(With(EmptyDir, NameLib, DirEntry), NameOldJs, DirEntry),
                NameReadme, BodyOnly),
      NameNotesTxt, BodyOnly),
    NameGone, BodyOnly)

\* what the server-script directory may hold when pull starts: the last one
\* has a subdirectory where pull writes the file of script 1
FrameServerDirs ==
  { ForeignDir,
    PulledServerFile(ForeignDir, ServerB),
    With(ForeignDir, scriptFileName(normalizeServerScript(ServerA)), DirEntry) }

FrameClientDirs == { EmptyDir, ForeignDir }

\* active script sets: the ids 3 are of scripts the remote store never has
FrameActives == { NoActive, [server |-> <<1, 3>>, client |-> <<3>>] }

PullFrameInit ==
  /\ remote \in RemotePresets \cup { NoSiteData }
  /\ serverDir \in FrameServerDirs
  /\ clientDir \in FrameClientDirs
  /\ snapshot = <<>>
  /\ \E a \in FrameActives, pushed \in {0, 1} :
       siteInfo = [DefaultSiteInfo EXCEPT !.activeScripts = a, !.lastPushed = pushed]
  /\ lastSync = 0
  /\ clock = 1
  /\ pc = "idle"
  /\ pullData = NoSiteData
  /\ writtenServer = <<>>
  /\ writtenClient = <<>>
  /\ lastOp = Op("init", "ok", "-", FALSE)
  /\ lastCall = <<>>
  /\ prePull = NoDirs
  /\ again = FALSE
  /\ cleanSince = FALSE
  /\ pushedStored = NothingStored
  /\ CodecOff
  /\ DiffOff
  /\ FileOff
  /\ SiteOff
  /\ AdminOff

NextPullFrame ==
  \/ \E ok \in Outcomes : PullFetch(ok)
  \/ PullSnapshot
  \/ \E ok \in Outcomes : PullWriteServer(ok)
  \/ \E ok \in Outcomes : PullWriteClient(ok)
  \/ PullCleanServer
  \/ PullCleanClient
  \/ PullFinish

SpecPullFrame == PullFrameInit /\ [][NextPullFrame]_vars

(************************ connection settings ******************************)
\* The connection settings are kept in four places: the domain in
\* globalState, the API key in the secret storage, config.settings in
\* workspaceState, and all of it in config.json; the user settings of the
\* editor hold a domain and a key of their own.  A missing value is <<>>, a
\* stored string s is << s >>.  A Config is a record with the properties it
\* has; its settings are one value.  normalizeDomain is not among the
\* sources: a command is given the domain it returned.

\* a Config with the two owlanter properties and settings
OwlanterConfig(domain, apiKey, settings) ==
  [x \in {"owlanter-domain", "owlanter-api", "settings"} |->
     IF x = "settings" THEN settings
     ELSE IF x = "owlanter-domain" THEN domain ELSE apiKey]

\* defaultConfig of initializeConfig
defaultConfig == OwlanterConfig(<<>>, <<>>, <<"default">>)

\* (config[owlanter] ?? config[pleasanter] ?? '').trim(): ?? passes over a
\* missing property only, not over an empty string
Setting(config, owlanter, pleasanter) ==
  Trim(IF Has(config, owlanter) THEN config[owlanter]
       ELSE IF Has(config, pleasanter) THEN config[pleasanter]
       ELSE <<>>)

\* SiteManager.persistConfig: the stores it leaves
persistConfig(conn, config) ==
  LET domain == Setting(config, "owlanter-domain", "pleasanter-domain")
      apiKey == Setting(config, "owlanter-api", "pleasanter-api")
  IN [conn EXCEPT !.domain = << domain >>,
                  !.api = IF apiKey # <<>> THEN << apiKey >> ELSE <<>>,
                  !.settings = IF Has(config, "settings") THEN << config["settings"] >>
                               ELSE <<>>,
                  !.file = << Without(Without(With(With(config, "owlanter-domain", domain),
                                                       "owlanter-api", apiKey),
                                                  "pleasanter-domain"),
                                          "pleasanter-api") >>]

\* SiteManager.initializeConfig(true), and initializeConfig() when nothing
\* exists: the Config returned and the stores it leaves
initializeConfig(conn) ==
  [config |-> defaultConfig, conn |-> persistConfig(conn, defaultConfig)]

\* SiteManager.getConfig: the Config returned and the stores it leaves
getConfig(conn) ==
  IF conn.settings # <<>>
  THEN [config |-> OwlanterConfig(IF conn.domain # <<>> THEN conn.domain[1] ELSE <<>>,
                                  IF conn.api # <<>> THEN conn.api[1] ELSE <<>>,
                                  conn.settings[1]),
        conn |-> conn]
  ELSE IF conn.file # <<>>
  THEN LET parsed == conn.file[1]
           domain == Setting(parsed, "owlanter-domain", "pleasanter-domain")
           apiKey == Setting(parsed, "owlanter-api", "pleasanter-api")
           withDomain == IF domain # <<>> THEN With(parsed, "owlanter-domain", domain)
                         ELSE parsed
           withApi == IF apiKey # <<>> THEN With(withDomain, "owlanter-api", apiKey)
                      ELSE withDomain
           result == Without(Without(withApi, "pleasanter-domain"), "pleasanter-api")
       IN [config |-> result, conn |-> persistConfig(conn, result)]
  ELSE initializeConfig(conn)

\* SiteManager.configExists
configExists(conn) ==
  \/ conn.settings # <<>>
  \/ conn.domain \notin { <<>>, << <<>> >> }
  \/ conn.api \notin { <<>>, << <<>> >> }
  \/ conn.file # <<>>

\* how a command on the connection settings ended
ConfigOp(name, result, given) == [Op(name, result, "-", FALSE) EXCEPT !.args = given]

\* what the commands on the connection settings leave alone
ConfigFrame ==
  UNCHANGED << remote, serverDir, clientDir, snapshot, siteInfo, lastSync, clock,
               pc, pullData, writtenServer, writtenClient, lastCall, prePull,
               again, cleanSince, pushedStored, codecVars, diffVars, fileVars,
               siteVars, sitesConfig, fileWatcher, chokidar, watchCalls >>

\* owlanter.configSet; domain is normalizeDomain of what the user entered,
\* <<>> when the input box was left empty or dismissed.  The Config in
\* place gets the domain and the key as its pleasanter properties and is
\* saved.
ConfigSet(domain, apiKey) ==
  /\ ConfigFrame
  /\ IF domain = <<>> \/ apiKey = <<>>
     THEN /\ lastOp' = ConfigOp("configSet", "noop", << domain, apiKey >>)
          /\ UNCHANGED << connection, configOut >>
     ELSE /\ LET loaded == IF configExists(connection) THEN getConfig(connection)
                           ELSE initializeConfig(connection)
             IN connection' =
                  [persistConfig(loaded.conn,
                                 With(With(loaded.config, "pleasanter-domain", domain),
                                      "pleasanter-api", apiKey))
                   EXCEPT !.user = [domain |-> domain, apiKey |-> apiKey]]
          /\ configOut' = [given |-> << [domain |-> domain, apiKey |-> apiKey] >>,
                           got |-> <<>>]
          /\ lastOp' = ConfigOp("configSet", "ok", << domain, apiKey >>)

\* owlanter.configSync; domain is normalizeDomain of the trimmed domain of
\* the user settings
ConfigSync(domain) ==
  /\ ConfigFrame
  /\ IF Trim(connection.user.domain) = <<>> \/ Trim(connection.user.apiKey) = <<>>
     THEN /\ lastOp' = ConfigOp("configSync", "noop", << domain >>)
          /\ UNCHANGED << connection, configOut >>
     ELSE /\ LET loaded == IF configExists(connection) THEN getConfig(connection)
                           ELSE initializeConfig(connection)
             IN connection' =
                  persistConfig(loaded.conn,
                                With(With(loaded.config, "pleasanter-domain", domain),
                                     "pleasanter-api", Trim(connection.user.apiKey)))
          /\ configOut' = [given |-> << [domain |-> domain,
                                         apiKey |-> Trim(connection.user.apiKey)] >>,
                           got |-> <<>>]
          /\ lastOp' = ConfigOp("configSync", "ok", << domain >>)

\* a caller of getConfig: createApiClient, owlanter.configShow
GetConfig ==
  /\ ConfigFrame
  /\ connection' = getConfig(connection).conn
  /\ configOut' = [configOut EXCEPT !.got = << getConfig(connection).config >>]
  /\ lastOp' = ConfigOp("getConfig", "ok", <<>>)

\* the user edits the domain and the key in the settings of the editor
EditSettings(domain, apiKey) ==
  /\ ConfigFrame
  /\ connection.user # [domain |-> domain, apiKey |-> apiKey]
  /\ connection' = [connection EXCEPT !.user = [domain |-> domain, apiKey |-> apiKey]]
  /\ lastOp' = ConfigOp("editSettings", "ok", <<>>)
  /\ UNCHANGED configOut

\* domains as normalizeDomain returns them, and API keys
Domains == { <<"d">>, <<"e">> }

ApiKeys == { <<"k">>, <<"m">> }

\* a config.json written by hand or by an earlier version: with the
\* pleasanter properties, with the owlanter properties, without either
ConfigFiles ==
  { [x \in {"pleasanter-domain", "pleasanter-api", "settings"} |->
       IF x = "settings" THEN <<"kept">>
       ELSE IF x = "pleasanter-domain" THEN <<"d">> ELSE <<"k">>],
    OwlanterConfig(<<"e", " ">>, <<"m">>, <<"kept">>),
    [x \in {"settings"} |-> <<"kept">>] }

\* the stores when the extension starts
ConnectionInputs ==
  { NoConnection }
  \cup { [NoConnection EXCEPT !.file = << f >>] : f \in ConfigFiles }
  \cup { [NoConnection EXCEPT !.domain = << <<"d">> >>, !.api = << <<"k">> >>,
                              !.settings = << <<"kept">> >>] }

ConfigInit ==
  /\ SyncOff
  /\ CodecOff
  /\ DiffOff
  /\ FileOff
  /\ SiteOff
  /\ sitesConfig = EmptySitesConfig
  /\ fileWatcher = NotWatching
  /\ chokidar = [made |-> 0, open |-> {}]
  /\ watchCalls = [c \in Callers |-> IdleCall]
  /\ connection \in ConnectionInputs
  /\ configOut = NoConfigOut

NextConfig ==
  \/ \E domain \in Domains \cup { <<>> }, apiKey \in ApiKeys \cup { <<>> } :
       ConfigSet(domain, apiKey)
  \/ \E domain \in Domains : ConfigSync(domain)
  \/ GetConfig
  \/ \E domain \in Domains \cup { <<>> }, apiKey \in ApiKeys \cup { <<>> } :
       EditSettings(domain, apiKey)

SpecConfig == ConfigInit /\ [][NextConfig]_vars

(************************ properties of pull *******************************)
PullSucceeded == lastOp.name = "pull" /\ lastOp.result = "ok"

\* the file names pull writes for a list of normalised records
NamesFor(scripts) == { scriptFileName(scripts[i]) : i \in 1..Len(scripts) }

\* names that a step takes out of a directory
Removed(before, after) == (DOMAIN before) \ (DOMAIN after)

\* C1: after a successful pull the regular .js files of the server
\* directory are exactly the files pull wrote for the fetched server
\* scripts, likewise for the client directory, and every .js file that was
\* there before the pull and was not written by it is gone.
PullLeavesWrittenFiles ==
  PullSucceeded =>
    /\ ScriptFiles(serverDir) = Range(writtenServer)
    /\ Range(writtenServer) = NamesFor(normalizeServerScripts(pullData))
    /\ ScriptFiles(clientDir) = Range(writtenClient)
    /\ Range(writtenClient) = NamesFor(normalizeClientScripts(pullData))
    /\ \A n \in ScriptFiles(prePull.server) \ Range(writtenServer) : n \notin DOMAIN serverDir
    /\ \A n \in ScriptFiles(prePull.client) \ Range(writtenClient) : n \notin DOMAIN clientDir

\* a successful pull that found a script file it did not write
PullRemovedOrphan ==
  /\ PullSucceeded
  /\ ScriptFiles(prePull.server) \ Range(writtenServer) # {}
  /\ Range(writtenServer) # {}

\* C2: when the remote fetch of pull fails, pull ends with that error and
\* the script directories, the snapshot, the site's sync state and its
\* last-sync are what they were.
FailedFetchChangesNothing ==
  [][ (lastOp'.name = "pull" /\ lastOp'.result = "error" /\ lastOp'.stage = "fetch")
        => /\ pc = "idle" /\ pc' = "idle"
           /\ UNCHANGED << serverDir, clientDir, snapshot, siteInfo, lastSync >> ]_vars

\* a fetch failed while the site had pulled files and a snapshot
FetchFailedOverPulledFiles ==
  /\ lastOp.name = "pull" /\ lastOp.result = "error" /\ lastOp.stage = "fetch"
  /\ ScriptFiles(serverDir) # {}
  /\ snapshot # <<>>
  /\ siteInfo.lastPulled > 0

\* C3: within a pull every write precedes the first deletion, a deletion
\* never takes a file this pull wrote, and a pull that ends in a failed
\* write has deleted nothing.
WritesPrecedeDeletions ==
  [][ lastOp'.name = "pull" =>
        /\ (Removed(serverDir, serverDir') \cup Removed(clientDir, clientDir') # {}) =>
             /\ Len(writtenServer) = Len(normalizeServerScripts(pullData))
             /\ Len(writtenClient) = Len(normalizeClientScripts(pullData))
             /\ writtenServer' = writtenServer
             /\ writtenClient' = writtenClient
             /\ Removed(serverDir, serverDir') \cap Range(writtenServer) = {}
             /\ Removed(clientDir, clientDir') \cap Range(writtenClient) = {}
        /\ (pc # "idle" /\ (writtenServer' # writtenServer \/ writtenClient' # writtenClient)) =>
             /\ DOMAIN prePull.server \subseteq DOMAIN serverDir
             /\ DOMAIN prePull.client \subseteq DOMAIN clientDir
        /\ (lastOp'.result = "error" /\ lastOp'.stage \in {"writeServer", "writeClient"}) =>
             /\ DOMAIN prePull.server \subseteq DOMAIN serverDir'
             /\ DOMAIN prePull.client \subseteq DOMAIN clientDir' ]_vars

\* a write failed after other files were written, with an orphan waiting
WriteFailedMidway ==
  /\ lastOp.name = "pull" /\ lastOp.result = "error"
  /\ lastOp.stage \in {"writeServer", "writeClient"}
  /\ Len(writtenServer) > 0
  /\ ScriptFiles(prePull.server) \ Range(writtenServer) # {}
  /\ ScriptFiles(prePull.server) \subseteq DOMAIN serverDir

\* C4: a successful pull that follows a successful pull, with nothing
\* changed remotely or locally between the two, leaves the same script
\* files with the same contents as the first one and deletes no file.
PullIdempotent ==
  [][ (again' /\ lastOp'.name = "pull") =>
        /\ Removed(serverDir, serverDir') = {}
        /\ Removed(clientDir, clientDir') = {}
        /\ (lastOp'.result = "ok" =>
              /\ serverDir' = prePull'.server
              /\ clientDir' = prePull'.client) ]_vars

\* the second of two pulls in a row has succeeded
PulledTwice ==
  /\ PullSucceeded
  /\ again
  /\ ScriptFiles(serverDir) # {}
  /\ ScriptFiles(clientDir) # {}

(************************ properties of the codec **************************)
\* the known flags of a variant
KnownFlags(variant) == IF variant = "server" THEN ServerFlagKeys ELSE ClientFlagKeys

\* a flag of a record, absent read as false
FlagValue(script, k) == Truthy(script, k)

\* two records carry the same value for every flag of the set
SameFlags(a, b, keys) == \A k \in keys : FlagValue(a, k) = FlagValue(b, k)

\* C5: encoding a record with known flags and decoding the text again
\* gives the same value for every flag and the same body.
CodecRoundTrip ==
  codecPc = "out" =>
    /\ SameFlags(codecOut, codecIn.rec, KnownFlags(codecIn.variant))
    /\ codecOut.Body = codecIn.rec.Body

(************************ properties of push *******************************)
PushSucceeded == lastOp.name = "push" /\ lastOp.result = "ok" /\ lastCall # <<>>

\* the local scripts of both variants, as push collects them
LocalServer ==
  collectLocalServerScripts(serverDir, loadExistingScriptMaps(snapshot).server)

LocalClient ==
  collectLocalClientScripts(clientDir, loadExistingScriptMaps(snapshot).client)

\* a local file decodes to the id, the flags and the body of record r
DecodesTo(locals, r, keys) ==
  \E l \in locals :
    /\ l.id = r.Id
    /\ SameFlags(l.script, r, keys)
    /\ l.script.Body = r.Body

\* C6: with a remote store that gives back what it was sent, a pull that
\* follows a push leaves, for every pushed record, a local file that
\* decodes to the flags and the body that were pushed.
PushThenPullReproduces ==
  (PullSucceeded /\ pushedStored # NothingStored) =>
    /\ \A r \in pushedStored.server : DecodesTo(LocalServer, r, ServerFlagKeys)
    /\ \A r \in pushedStored.client : DecodesTo(LocalClient, r, ClientFlagKeys)

\* a pull has followed a push that sent a functionalized server script, a
\* server script without an id and a client script
PulledAfterPush ==
  /\ PullSucceeded
  /\ \E r \in pushedStored.server : FlagValue(r, "Functionalize") /\ r.Id = 3
  /\ pushedStored.client # {}

\* C7: after a successful pull with no local edit and an empty active
\* script set, push sends for every pulled record a record with the same
\* id, the same value of every known flag and the same body.
PullThenPushLossFree ==
  [][ ( /\ cleanSince /\ pc = "idle"
        /\ siteInfo.activeScripts.server = <<>>
        /\ siteInfo.activeScripts.client = <<>>
        /\ lastOp'.name = "push" /\ lastOp'.result = "ok" /\ ~lastOp'.dryRun )
      => /\ lastCall' # <<>>
         /\ \A r \in Range(normalizeServerScripts(snapshot[1])) :
              \E x \in lastCall'[1].server :
                /\ x.script.Id = r.Id
                /\ SameFlags(x.script, r, ServerFlagKeys)
                /\ x.script.Body = r.Body
         /\ \A r \in Range(normalizeClientScripts(snapshot[1])) :
              \E x \in lastCall'[1].client :
                /\ x.script.Id = r.Id
                /\ SameFlags(x.script, r, ClientFlagKeys)
                /\ x.script.Body = r.Body ]_vars

\* the ids of the active script set, both variants taken together
ActiveIds ==
  Range(siteInfo.activeScripts.server) \cup Range(siteInfo.activeScripts.client)

\* C8 as stated: with a non-empty active script set every record sent has
\* an id in the set, with an empty one every local record is sent.
PushSendsOnlyActiveSet ==
  PushSucceeded =>
    IF ActiveIds # {}
    THEN \A x \in lastCall[1].server \cup lastCall[1].client :
           x.id # NullId /\ x.id \in ActiveIds
    ELSE lastCall[1].server = LocalServer /\ lastCall[1].client = LocalClient

\* what push sends of one variant, given the ids active for that variant
SendsVariant(sent, locals, ids) ==
  IF Len(ids) > 0
  THEN /\ \A x \in sent : x \in locals /\ x.id # NullId /\ x.id \in Range(ids)
       /\ \A l \in locals : l.id \in Range(ids) => l \in sent
  ELSE sent = locals

\* C8, amended: the restriction is per variant.  With a non-empty server
\* list every server record sent has an id in that list, with an empty
\* server list every local server record is sent; likewise for the client
\* list and the client records.  An id that matches no local file sends
\* nothing.
PushSendsActivePerVariant ==
  PushSucceeded =>
    /\ SendsVariant(lastCall[1].server, LocalServer, siteInfo.activeScripts.server)
    /\ SendsVariant(lastCall[1].client, LocalClient, siteInfo.activeScripts.client)

\* a push went through with a server list that holds an id of no local
\* file and leaves a local server script out, and an empty client list
PushedWithStaleIds ==
  /\ PushSucceeded
  /\ \E id \in Range(siteInfo.activeScripts.server) : \A l \in LocalServer : l.id # id
  /\ lastCall[1].server # {}
  /\ lastCall[1].server # LocalServer
  /\ siteInfo.activeScripts.client = <<>>
  /\ lastCall[1].client # {}

\* C9: a push given dryRun sends no update, leaves last-pushed, last-sync
\* and the local files as they were, and runs diff.
DryRunPushChangesNothing ==
  [][ (lastOp'.name = "push" /\ lastOp'.dryRun) =>
        /\ lastCall' = <<>>
        /\ lastOp'.diff
        /\ UNCHANGED << remote, siteInfo, lastSync, serverDir, clientDir, snapshot >> ]_vars

\* a dry run over local files that a push would have sent
DryRunOverLocalFiles ==
  /\ lastOp.name = "push" /\ lastOp.dryRun /\ lastOp.diff
  /\ LocalServer # {}
  /\ siteInfo.lastPulled > 0

\* no script of a variant is selected: there is none, or the variant's
\* list is not empty and holds the id of none
NoneSelected(locals, ids) ==
  locals = {} \/ (Len(ids) > 0 /\ \A l \in locals : l.id \notin Range(ids))

DiffSucceeded == lastOp.name = "diff" /\ lastOp.result = "ok"

\* C11: diff changes nothing: the local script files, the snapshot, the
\* site info, last-sync, the sites configuration and the remote store are
\* after diff what they were before it.
DiffMutatesNothing ==
  [][ lastOp'.name = "diff" =>
        UNCHANGED << serverDir, clientDir, snapshot, siteInfo, lastSync,
                     sites, remote >> ]_vars

\* the larger of two numbers
Max(a, b) == IF a >= b THEN a ELSE b

\* the key of an entry: its variant and its id or, without an id, its title
EntryKey(e) ==
  [type |-> e.type, text |-> IF e.id # NullId THEN NumToStr(e.id) ELSE e.title]

\* the number of entries of the last diff that satisfy P
EntriesWith(P(_)) == Cardinality({ j \in 1..Len(diffOut) : P(diffOut[j]) })

\* every remote record of one variant is the remote side of exactly one
\* entry, and its key is the key of an entry
RemoteKept(type, scripts) ==
  \A i \in 1..Len(scripts) :
    /\ LET Shows(e) == e.type = type /\ e.remoteContent = RemoteEntry(type, scripts[i]).remoteContent
       IN EntriesWith(Shows) = 1
    /\ \E j \in 1..Len(diffOut) : EntryKey(diffOut[j]) = RemoteKey(type, scripts[i])

\* every local file of one variant is the local side of exactly one entry,
\* and its key is the key of an entry
LocalKept(type, locals) ==
  \A i \in 1..Len(locals) :
    /\ LET Shows(e) == e.localPath = << [type |-> type, name |-> locals[i].filePath] >>
       IN EntriesWith(Shows) = 1
    /\ \E j \in 1..Len(diffOut) : EntryKey(diffOut[j]) = LocalKey(type, locals[i])

\* C16: the entries of a diff leave out no input: there are at least as
\* many entries as remote records and as local files, and every remote
\* record and every local file is in exactly one entry, under its key.
ReconcileDropsNothing ==
  (lastOp.name = "diff" /\ lastOp.result \in {"ok", "noop"}) =>
    /\ Len(diffOut) >= Max(Len(diffIn.remoteServers) + Len(diffIn.remoteClients),
                           Len(diffIn.localServer) + Len(diffIn.localClient))
    /\ RemoteKept("server", diffIn.remoteServers)
    /\ RemoteKept("client", diffIn.remoteClients)
    /\ LocalKept("server", diffIn.localServer)
    /\ LocalKept("client", diffIn.localClient)

\* C17: in the list diff builds, server entries come before client
\* entries, and within a variant the entries with an id come in ascending
\* order of id, before every entry without an id.
DiffEntriesOrdered ==
  lastOp.name = "diff" =>
    \A i, j \in 1..Len(diffOut) :
      i < j =>
        /\ ~(diffOut[i].type = "client" /\ diffOut[j].type = "server")
        /\ (diffOut[i].type = diffOut[j].type /\ diffOut[j].id # NullId) =>
             (diffOut[i].id # NullId /\ diffOut[i].id <= diffOut[j].id)

\* a diff over remote records fetched out of id order, with entries
\* without an id in both variants
DiffSortedMixedEntries ==
  /\ DiffSucceeded
  /\ Len(diffIn.remoteServers) > 1
  /\ diffIn.remoteServers[1].Id > diffIn.remoteServers[2].Id
  /\ \E i, j \in 1..Len(diffOut) :
       /\ i < j
       /\ diffOut[i].type = "server" /\ diffOut[i].id = NullId
       /\ diffOut[j].type = "client" /\ diffOut[j].id # NullId
  /\ \E j \in 1..Len(diffOut) : diffOut[j].type = "client" /\ diffOut[j].id = NullId

\* the scripts a diff decoded from files of the given name without a header
Headerless(dir, locals, name) ==
  { l \in Range(locals) :
      l.filePath = name /\ name \in DOMAIN dir /\ dir[name].text = BodyOnly }

\* C18 as stated: without a header 42_MyScript.js decodes to id 42 and
\* title MyScript, new_Draft.js to no id and title Draft.
FilenameInferenceDraft ==
  DiffSucceeded =>
    /\ \A l \in Headerless(serverDir, diffIn.localServer, Name42)
               \cup Headerless(clientDir, diffIn.localClient, Name42) :
         l.id = 42 /\ l.title = <<"MyScript">>
    /\ \A l \in Headerless(serverDir, diffIn.localServer, NameDraft)
               \cup Headerless(clientDir, diffIn.localClient, NameDraft) :
         l.id = NullId /\ l.title = <<"Draft">>

\* C18, amended: without a header 42_MyScript.js decodes to id 42 and
\* title MyScript; new_Draft.js, which does not start with digits, decodes
\* to no id and to its name without the extension, new_Draft, as title.
FilenameInference ==
  DiffSucceeded =>
    /\ \A l \in Headerless(serverDir, diffIn.localServer, Name42)
               \cup Headerless(clientDir, diffIn.localClient, Name42) :
         l.id = 42 /\ l.title = <<"MyScript">>
    /\ \A l \in Headerless(serverDir, diffIn.localServer, NameDraft)
               \cup Headerless(clientDir, diffIn.localClient, NameDraft) :
         l.id = NullId /\ l.title = <<"new", "_", "Draft">>

\* a diff decoded both files, without a header, in both directories
DecodedHeaderlessFiles ==
  /\ DiffSucceeded
  /\ Headerless(serverDir, diffIn.localServer, Name42) # {}
  /\ Headerless(serverDir, diffIn.localServer, NameDraft) # {}
  /\ Headerless(clientDir, diffIn.localClient, Name42) # {}
  /\ Headerless(clientDir, diffIn.localClient, NameDraft) # {}

(************************ properties of the active script set **************)
\* a list of numbers in which every element is smaller than the next
StrictlyAscending(ids) == \A i, j \in 1..Len(ids) : i < j => ids[i] < ids[j]

\* C14: the stored lists are strictly ascending and getActiveScriptIds
\* returns them; a set call leaves exactly the distinct ids it was given,
\* a clear call leaves none, and no other operation changes the lists.
ActiveSetStored ==
  /\ [](/\ StrictlyAscending(siteInfo.activeScripts.server)
        /\ StrictlyAscending(siteInfo.activeScripts.client)
        /\ getActiveScriptIds(siteInfo) = siteInfo.activeScripts)
  /\ [][ /\ lastOp'.name = "setActive" =>
              /\ Range(siteInfo'.activeScripts.server) = Range(lastOp'.args[1])
              /\ Range(siteInfo'.activeScripts.client) = Range(lastOp'.args[2])
         /\ lastOp'.name = "clearActive" =>
              siteInfo'.activeScripts = [server |-> <<>>, client |-> <<>>]
         /\ lastOp'.name \notin {"setActive", "clearActive"} =>
              UNCHANGED siteInfo.activeScripts ]_vars

\* a set call with ids out of order and given twice took the place of
\* lists that held other ids
ReplacedActiveSet ==
  /\ lastOp.name = "setActive"
  /\ lastOp.args = << <<3, 1, 3>>, <<>> >>
  /\ siteInfo.activeScripts = [server |-> <<1, 3>>, client |-> <<>>]
  /\ clock > 1

(************************ properties of pushFile and the handlers **********)
\* a path lies inside a directory: under it, behind a separator
Inside(p, dirPath) ==
  /\ Len(p) > Len(dirPath) + 1
  /\ SubSeq(p, 1, Len(dirPath) + 1) = dirPath \o <<"/">>

\* a path lies inside one of the two managed directories
Managed(p) == Inside(p, ServerDirPath) \/ Inside(p, ClientDirPath)

\* the step is one of pushFile
PushFileStep == lastOp'.name \in {"autoPush", "pushFile"}

\* C12: pushFile with a path that is inside neither managed directory
\* returns without throwing, makes no remote call and leaves last-pushed
\* and everything else it could update as it was.
PushFileOutsideIsNoop ==
  [][\A p \in PathInputs, ok \in Outcomes :
       (~Managed(p) /\ PushFileCall(p, ok)) =>
         /\ lastOp'.result = "noop"
         /\ lastCall' = <<>>
         /\ tasks'["push"].pc = "idle"
         /\ UNCHANGED << remote, siteInfo, lastSync >>]_vars

\* pushFile, called with a readable file inside a managed directory and a
\* remote call that succeeds, sends the record parsed from that file
PushFileSendsRecord ==
  \A p \in PathInputs \cup WatchedPaths, auto \in BOOLEAN :
    (/\ Managed(p)
     /\ Readable(p, serverDir, clientDir)
     /\ PushFileBegin("push", p, TRUE, auto)) =>
       /\ lastOp'.result = "sent"
       /\ lastCall' = << pushFileRecord(p, serverDir, clientDir, snapshot) >>
       /\ remote' = addScriptCall(remote, lastCall'[1])

\* C13 as stated: pushFile of a file inside a managed directory sends the
\* file's record whatever the active lists are, and no step of pushFile
\* changes the active lists.
PushFileNeverChangesActiveSet ==
  [][/\ PushFileSendsRecord
     /\ PushFileStep => UNCHANGED siteInfo.activeScripts]_vars

\* C13, amended: pushFile of a file inside a managed directory sends the
\* file's record whatever the active lists are; the only step of pushFile
\* that writes the site record is the save of its last-pushed update, which
\* stores the active lists pushFile read before it, so the lists are the
\* same after the save unless they were changed between its read and its save.
PushFileWritesBackActiveSet ==
  [][/\ PushFileSendsRecord
     /\ (PushFileStep /\ lastOp'.result # "ok") => UNCHANGED siteInfo
     /\ (PushFileStep /\ lastOp'.result = "ok") =>
          /\ siteInfo'.activeScripts = tasks["push"].info.activeScripts
          /\ siteInfo.activeScripts = tasks["push"].info.activeScripts =>
               UNCHANGED siteInfo.activeScripts]_vars

\* pushFile has sent the record of a file whose id is in neither active
\* list, while both lists hold an id
SentOutsideActiveSet ==
  /\ lastOp.name \in {"autoPush", "pushFile"}
  /\ lastOp.result = "sent"
  /\ Managed(tasks["push"].path)
  /\ siteInfo.activeScripts.server # <<>>
  /\ siteInfo.activeScripts.client # <<>>
  /\ lastCall[1].local.id \notin Range(siteInfo.activeScripts[lastCall[1].variant])

\* C15 as stated: each active list holds at most one id.
AtMostOneActive ==
  /\ Len(siteInfo.activeScripts.server) <= 1
  /\ Len(siteInfo.activeScripts.client) <= 1

\* C15, amended: the active lists hold as many ids as the last call of
\* setActiveScripts was given; the toggle of a tree node calls it with at
\* most one id per variant, so after the save of a toggle each list holds
\* at most one id.
ToggleLeavesAtMostOne ==
  [][/\ \A s \in CommandSlots :
          (tasks[s].pc = "idle" /\ tasks'[s].pc = "update" /\ tasks'[s].kind = "toggle") =>
            /\ Len(tasks'[s].server) <= 1
            /\ Len(tasks'[s].client) <= 1
     /\ (lastOp'.name = "toggle" /\ lastOp'.result = "ok") => AtMostOneActive']_vars

\* a toggle that read a server list of two ids has saved its lists
ToggledOverTwoIds ==
  /\ lastOp.name = "toggle"
  /\ lastOp.result = "ok"
  /\ \E s \in CommandSlots :
       /\ tasks[s].pc = "idle"
       /\ tasks[s].kind = "toggle"
       /\ Len(tasks[s].seen.server) = 2
       /\ siteInfo.activeScripts.server = DedupSort(tasks[s].server)
  /\ AtMostOneActive

\* C19: every save of the site record stores the updater's result on the
\* record the handler read, whatever the record is by then, and the handler
\* ends as if nothing had happened: no error is reported.
LostUpdateUndetected ==
  [][\A s \in Slots :
       (tasks[s].pc = "save" /\ tasks'[s].pc = "idle") =>
         /\ siteInfo' =
              IF tasks[s].kind \in {"autoPush", "pushFile"}
              THEN [tasks[s].info EXCEPT !.lastPushed = clock]
              ELSE [tasks[s].info EXCEPT !.activeScripts =
                      [server |-> DedupSort(tasks[s].server),
                       client |-> DedupSort(tasks[s].client)]]
         /\ lastOp'.result = "ok"
         /\ reported' = reported]_vars

\* the save of an auto-push has put back the active lists it read, over
\* the lists a toggle saved in between, and nothing was reported
LostToggle ==
  /\ lost = "activeScripts"
  /\ lastOp.name = "autoPush"
  /\ lastOp.result = "ok"
  /\ siteInfo.lastPushed = clock
  /\ reported = 0

\* C20: every change event calls pushFile, also after a failure; when the
\* pushFile of a change event fails, one error is reported and the watcher
\* stays on the same site, and no step of a handler stops the watcher.
AutoPushFailureKeepsWatching ==
  [][/\ \A p \in WatchedPaths, ok \in Outcomes :
          ChangeEvent(p, ok) =>
            /\ lastOp'.name = "autoPush"
            /\ lastOp'.result \in {"sent", "error"}
            /\ lastOp'.result = "sent" => tasks'["push"].path = p
            /\ lastOp'.result = "error" =>
                 /\ reported' = reported + 1
                 /\ watcher' = watcher
                 /\ watcher' # <<>>
     /\ lastOp'.name \notin {"watchStart", "watchStop"} => UNCHANGED watcher]_vars

\* after an auto-push that failed, a later change event has sent its record
PushedAfterFailure ==
  /\ reported > 0
  /\ watcher # <<>>
  /\ lastOp.name = "autoPush"
  /\ lastOp.result = "sent"
  /\ tasks["push"].kind = "autoPush"

(************************ properties of the local scan *********************)
\* the entries of the last listing and the variant it was made for
Listed == IF listing = <<>> THEN {} ELSE listing[1].scripts

ListedType == listing[1].type

\* the snapshot records of the listed variant, by id
SnapshotMap == loadExistingScriptMaps(snapshot)[ListedType]

\* what MetadataParser.parseFile gives for the file of a listed entry
ParsedOf(e) ==
  parseFile((IF ListedType = "server" THEN serverDir ELSE clientDir)[e.filePath].text)

\* the record parseServerScript / parseClientScript builds for the file of a
\* listed entry on the base it is given
RecordOn(e, base) ==
  IF ListedType = "server"
  THEN ParsedServerScript(e.filePath, ParsedOf(e), base).script
  ELSE ParsedClientScript(e.filePath, ParsedOf(e), base).script

\* the snapshot record with the id of a listed entry, <<>> when there is none
SnapshotRecordOf(e) ==
  IF e.id # NullId /\ e.id \in DOMAIN SnapshotMap THEN SnapshotMap[e.id] ELSE <<>>

\* C22: the record of a listed file is layered onto the snapshot record
\* whose id is the resolved id of the file, and onto no record when the
\* snapshot has none with that id.
LayeredOnResolvedId ==
  \A e \in Listed : e.script = RecordOn(e, SnapshotRecordOf(e))

\* the id a header declares, read as a number; absent when it is not one
HeaderId(metadata) ==
  IF NumberOf(metadata[<<"id">>]) = NaN THEN NullId ELSE NumberOf(metadata[<<"id">>])

ListedFlags ==
  IF ListedType = "server"
  THEN ServerFlagTable \o << [meta |-> "functionalize", api |-> "Functionalize", alt |-> "Functionalize"],
                             [meta |-> "try-catch", api |-> "TryCatch", alt |-> "TryCatch"] >>
  ELSE ClientFlagTable

\* the header's value of a text field, the snapshot record's without one
TextFrom(e, key, prop) ==
  IF Has(ParsedOf(e).metadata, <<key>>) THEN TextOf(ParsedOf(e).metadata[<<key>>])
  ELSE ExistingFor(e.filePath, SnapshotMap)[prop]

\* C24: in the record of a file layered onto a snapshot record, every flag,
\* the title and the name are the header's value where the header declares
\* the field and the snapshot record's value where it does not, and the
\* body is the body of the file.
LayeredFieldsFromHeaderElseSnapshot ==
  \A e \in Listed :
    ExistingFor(e.filePath, SnapshotMap) # <<>> =>
      /\ e.script.Body = ParsedOf(e).body
      /\ e.script.Title = TextFrom(e, "title", "Title")
      /\ ListedType = "server" => e.script.Name = TextFrom(e, "name", "Name")
      /\ \A i \in 1..Len(ListedFlags) :
           e.script[ListedFlags[i].api] =
             IF Has(ParsedOf(e).metadata, <<ListedFlags[i].meta>>)
             THEN BooleanOf(ParsedOf(e).metadata[<<ListedFlags[i].meta>>])
             ELSE ExistingFor(e.filePath, SnapshotMap)[ListedFlags[i].api]

\* a layered file whose header turns off a flag the snapshot has on, turns
\* on one it has off and leaves unmentioned one it has on
ListedLayeredOverride ==
  \E e \in Listed :
    /\ ExistingFor(e.filePath, SnapshotMap) # <<>>
    /\ \E i, j, k \in 1..Len(ListedFlags) :
         /\ Has(ParsedOf(e).metadata, <<ListedFlags[i].meta>>)
         /\ ExistingFor(e.filePath, SnapshotMap)[ListedFlags[i].api]
         /\ ~e.script[ListedFlags[i].api]
         /\ Has(ParsedOf(e).metadata, <<ListedFlags[j].meta>>)
         /\ ~ExistingFor(e.filePath, SnapshotMap)[ListedFlags[j].api]
         /\ e.script[ListedFlags[j].api]
         /\ ~Has(ParsedOf(e).metadata, <<ListedFlags[k].meta>>)
         /\ e.script[ListedFlags[k].api]

\* a listed file is about id 0: its header declares 0, or its header
\* declares no id and its name begins with 0_
AboutZero(e) ==
  IF Has(ParsedOf(e).metadata, <<"id">>)
  THEN ParsedOf(e).metadata[<<"id">>].s = <<"0">>
  ELSE NameMatches(e.filePath) /\ InferredId(e.filePath) = 0

\* a listed file about id 0 has the id 0
ZeroResolves ==
  \A e \in Listed : AboutZero(e) => (e.id = 0 /\ Has(e.script, "Id") /\ e.script.Id = 0)

\* a listed file about id 0 is layered onto the snapshot record 0
ZeroMatchesSnapshot ==
  \A e \in Listed :
    (AboutZero(e) /\ 0 \in DOMAIN SnapshotMap) => e.script = RecordOn(e, SnapshotMap[0])

\* the local scripts of a variant with id 0
ZeroLocals(type) ==
  { l \in IF type = "server"
          THEN collectLocalServerScripts(serverDir, loadExistingScriptMaps(snapshot).server)
          ELSE collectLocalClientScripts(clientDir, loadExistingScriptMaps(snapshot).client) :
      l.id = 0 }

\* a push that reached the update call sent the scripts with id 0 of a
\* variant with a non-empty active list exactly when 0 is in that list
ZeroPassesFilter ==
  (lastOp.name = "push" /\ lastCall # <<>>) =>
    \A type \in {"server", "client"} :
      \A l \in ZeroLocals(type) :
        Len(getActiveScriptIds(siteInfo)[type]) > 0 =>
          (l \in lastCall[1][type] <=> 0 \in Range(getActiveScriptIds(siteInfo)[type]))

\* in the entries of a diff a local script with id 0 shares the entry of
\* the remote record 0 of its variant, and that entry has the id 0 and
\* precedes every other entry of the variant
ZeroKeyedAndSorted ==
  DiffSucceeded =>
    \A type \in {"server", "client"} :
      \A l \in ZeroLocals(type) :
        \E j \in 1..Len(diffOut) :
          /\ diffOut[j].type = type
          /\ diffOut[j].id = 0
          /\ diffOut[j].remoteContent # <<>>
          /\ diffOut[j].localPath # <<>>
          /\ \A i \in 1..Len(diffOut) :
               (diffOut[i].type = type /\ diffOut[i].id # 0) => j < i

\* C28: 0 is a present id for a script: a file about id 0 resolves to id 0,
\* is layered onto the snapshot record 0, passes the push filter exactly
\* when 0 is in the active list, and is keyed and sorted as id 0 by diff;
\* for the current site 0 means none.
ZeroIsPresentId ==
  /\ ZeroResolves
  /\ ZeroMatchesSnapshot
  /\ ZeroPassesFilter
  /\ ZeroKeyedAndSorted
  /\ getCurrentSite(0) = NullId

(************************ properties of the commands on a site *************)
\* C21: a push or an upload invoked for the site id S collects, filters and
\* sends for the site S: the site its update call names is the site it was
\* invoked for.
CommandReachesAskedSite ==
  siteCall.site # NullId => siteCall.asked = << siteCall.site >>

\* push, upload or pushFile
PushingOps == {"push", "upload", "pushFile"}

\* C25: last-pushed and last-sync change only in a push or an upload whose
\* update call has succeeded, or in the save of a pushFile that has sent its
\* record; a push, upload or pushFile that ends with an error leaves them
\* and the remote store as they were.
LastPushedFollowsUpdate ==
  [][ /\ (siteInfo'.lastPushed # siteInfo.lastPushed \/ lastSync' # lastSync) =>
           \/ /\ lastOp'.name \in {"push", "upload"}
              /\ lastOp'.result = "ok"
              /\ lastCall' # <<>>
           \/ /\ lastOp'.name = "pushFile"
              /\ lastOp'.result = "ok"
              /\ tasks["push"].pc = "save"
      /\ (tasks["push"].pc = "idle" /\ tasks'["push"].pc # "idle") =>
           (lastOp'.result = "sent" /\ lastCall' # <<>>)
      /\ (lastOp'.name \in PushingOps /\ lastOp'.result = "error") =>
           UNCHANGED << siteInfo, lastSync, remote >> ]_vars

\* an upload of a readable file to a selected site whose update call
\* failed, after an earlier push of the site
UploadFailedAfterPush ==
  /\ lastOp.name = "upload"
  /\ lastOp.result = "error"
  /\ lastOp.args[1] = << PathServerA, PathClientC >>
  /\ currentSite # 0
  /\ siteInfo.lastPushed > 0
  /\ siteInfo.lastPushed < clock

\* the paths the last upload sent as scripts of a variant
SentAs(variant) == { u.path : u \in lastCall[1][variant] }

\* C29: an upload without a variant hint sends a file that lies in the
\* server-script directory as a server script, one that lies in the
\* client-script directory as a client script, and does not send a file of
\* neither for which no variant is chosen.
UploadClassifiesByDirectory ==
  (lastOp.name = "upload" /\ lastOp.result = "ok" /\ lastOp.args[2] = <<>>) =>
    \A i \in 1..Len(lastOp.args[1]) :
      LET p == lastOp.args[1][i] IN
      /\ Inside(p, ServerDirPath) => (p \in SentAs("server") /\ p \notin SentAs("client"))
      /\ Inside(p, ClientDirPath) => (p \in SentAs("client") /\ p \notin SentAs("server"))
      /\ (~Managed(p) /\ lastOp.args[3] = "none") =>
           (p \notin SentAs("server") /\ p \notin SentAs("client"))

\* a directory read fails with something other than a missing directory
OtherFault(f) == f \notin {"none", "ENOENT"}

\* C30: listing the local scripts of a variant whose directory does not
\* exist returns the empty list without error, and a push of a site with
\* neither directory ends as a no-op without a remote call; a directory
\* read that fails otherwise makes the listing and the push fail.
AbsentDirectoryListsEmpty ==
  /\ lastOp.name = "list" =>
       /\ fault[lastOp.args[1]] = "ENOENT" =>
            (lastOp.result = "ok" /\ listing = << [type |-> lastOp.args[1], scripts |-> {}] >>)
       /\ OtherFault(fault[lastOp.args[1]]) =>
            (lastOp.result = "error" /\ listing = <<>>)
  /\ lastOp.name = "push" =>
       /\ (fault.server = "ENOENT" /\ fault.client = "ENOENT") =>
            /\ lastOp.result = "noop"
            /\ lastCall = <<>>
            /\ siteInfo.lastPushed = 0
            /\ remote = ScanSiteData
       /\ (fault.server = "ENOENT" /\ lastCall # <<>>) => lastCall[1].server = {}
       /\ (OtherFault(fault.server) \/ OtherFault(fault.client)) =>
            (lastOp.result = "error" /\ lastCall = <<>>)

\* the listing of a variant whose directory does not exist has returned
ListedAbsentDirectory ==
  /\ lastOp.name = "list"
  /\ fault[lastOp.args[1]] = "ENOENT"
  /\ listing # <<>>

(************************ properties of the prompt and the toggle **********)
\* something passes the filter of push
SomethingSelected == SelectedServer # {} \/ SelectedClient # {}

\* C26: where the environment requires confirmation and force is not set, a
\* push makes its update call only when the prompt is answered with 'Push';
\* with 'Cancel' or a dismissed prompt it makes no call and leaves the
\* remote store, last-pushed and last-sync as they were.  With force the
\* answer plays no part: the push goes on to its update call.
ConfirmationGatesPush ==
  [][\A S \in KnownSites, i \in SitePushInputs :
       (/\ lastOp'.name = "push"
        /\ ~i.dryRun
        /\ i.required
        /\ currentSite # 0
        /\ siteCall'.asked = << S >>
        /\ PushSite(S, i.dryRun, i.force, i.required, i.answer, i.fetchOk, i.updateOk)) =>
         /\ (~i.force /\ i.answer # "Push") =>
              (lastCall' = <<>> /\ UNCHANGED << remote, siteInfo, lastSync >>)
         /\ (SomethingSelected /\ (i.force \/ i.answer = "Push")) =>
              (lastCall' # <<>> /\ siteInfo'.lastPushed = clock')]_vars

\* a push that was not confirmed has ended, after an earlier one was sent
PushNotConfirmed ==
  /\ lastOp.name = "push"
  /\ lastOp.result = "cancelled"
  /\ lastCall = <<>>
  /\ siteInfo.lastPushed > 0
  /\ siteInfo.lastPushed < clock

\* the lists a toggle that has just begun goes on to set
NextLists(s) == [server |-> tasks'[s].server, client |-> tasks'[s].client]

\* the variant a toggle is not about
OtherType(type) == IF type = "server" THEN "client" ELSE "server"

\* the step is the beginning of the toggle of id t[2] of variant t[1]
ToggleBegun(s, t) ==
  /\ lastOp'.name = "toggle"
  /\ lastOp'.result = "begin"
  /\ ToggleBegin(s, t[1], t[2])

\* C27: a toggle of an id adds it to the active list of its variant when the
\* list does not hold it and removes it when it does; the other ids of the
\* list and the list of the other variant stay as they were.
ToggleAddsOrRemovesOne ==
  [][\A s \in CommandSlots, t \in ToggleInputs :
       ToggleBegun(s, t) =>
         /\ Range(NextLists(s)[t[1]]) =
              (IF t[2] \in Range(siteInfo.activeScripts[t[1]])
               THEN Range(siteInfo.activeScripts[t[1]]) \ {t[2]}
               ELSE Range(siteInfo.activeScripts[t[1]]) \cup {t[2]})
         /\ NextLists(s)[OtherType(t[1])] = siteInfo.activeScripts[OtherType(t[1])]]_vars

\* the first id of a list as a list, the empty list for an empty one
FirstOnly(ids) == IF Len(ids) > 0 THEN << ids[1] >> ELSE <<>>

\* C27, amended: a toggle of an id sets the active list of its variant to
\* that id alone unless the id is the first of the list, and to the empty
\* list when it is; the list of the other variant is cut down to its first
\* id.
ToggleReplacesList ==
  [][\A s \in CommandSlots, t \in ToggleInputs :
       ToggleBegun(s, t) =>
         /\ NextLists(s)[t[1]] =
              (IF FirstOnly(siteInfo.activeScripts[t[1]]) = << t[2] >> THEN <<>> ELSE << t[2] >>)
         /\ NextLists(s)[OtherType(t[1])] = FirstOnly(siteInfo.activeScripts[OtherType(t[1])])]_vars

\* a toggle has begun for an id that the list it read holds behind another
ToggledBehindFirst ==
  /\ lastOp.name = "toggle"
  /\ lastOp.result = "begin"
  /\ \E s \in CommandSlots :
       /\ tasks[s].pc = "update"
       /\ tasks[s].kind = "toggle"
       /\ tasks[s].seen = getActiveScriptIds(siteInfo)
       /\ Len(tasks[s].seen.server) = 2
       /\ tasks[s].server = << tasks[s].seen.server[2] >>

(************************ properties of the reconciler's merges ************)
\* the local scripts and the remote records of one variant given to the
\* last diff
LocalsOf(type) == IF type = "server" THEN diffIn.localServer ELSE diffIn.localClient

RemotesOf(type) == IF type = "server" THEN diffIn.remoteServers ELSE diffIn.remoteClients

\* a local script and a remote record that may share an entry: both have
\* the same id, or neither has an id and both have the same title
SameIdentity(local, script) ==
  \/ local.id # NullId /\ Has(script, "Id") /\ script.Id = local.id
  \/ local.id = NullId /\ ~Has(script, "Id") /\ Has(script, "Title")
       /\ script.Title = local.title

\* C31: an entry of a diff that carries a local path and remote content
\* joins a local file and a remote record of the entry's variant that have
\* the same id or that both lack an id and have the same title; a local
\* file without an id is never joined to a remote record that has one.
MergesOnlySameIdentity ==
  (lastOp.name = "diff" /\ lastOp.result \in {"ok", "noop"}) =>
    \A j \in 1..Len(diffOut) :
      (diffOut[j].localPath # <<>> /\ diffOut[j].remoteContent # <<>>) =>
        /\ diffOut[j].localPath[1].type = diffOut[j].type
        /\ \A l \in Range(LocalsOf(diffOut[j].type)) :
           \A r \in Range(RemotesOf(diffOut[j].type)) :
             ( /\ l.filePath = diffOut[j].localPath[1].name
               /\ RemoteEntry(diffOut[j].type, r).remoteContent = diffOut[j].remoteContent )
             => SameIdentity(l, r)

(************************ properties of the site registry ******************)
\* the ids of the registered sites
RegisteredIds == { sitesConfig.sites[i].id : i \in 1..Len(sitesConfig.sites) }

\* the ids of the sites whose active flag is set
ActiveSiteIds ==
  { sitesConfig.sites[i].id : i \in { j \in 1..Len(sitesConfig.sites) :
                                       sitesConfig.sites[j].active } }

\* C32: after any sequence of addSite, selectSite and removeSite from an
\* empty site list, current-site is 0 exactly when no site is registered;
\* otherwise it is the id of a registered site, the only one with active
\* set; default-site is 0 or the id of a registered site.
CurrentSiteTracksRegistry ==
  /\ (sitesConfig.current = 0) <=> (Len(sitesConfig.sites) = 0)
  /\ Len(sitesConfig.sites) > 0 =>
       /\ sitesConfig.current \in RegisteredIds
       /\ ActiveSiteIds = { sitesConfig.current }
  /\ sitesConfig.default \in RegisteredIds \cup {0}

\* the site id and the answer the last operation on the registry was given
GivenSite(op) == op.args[1]

\* C33: addSite with a registered id, and selectSite or removeSite with
\* an id that is not registered, end with an error and leave the site list,
\* current-site, default-site and the active flags as they were; removeSite
\* answered with anything but Yes leaves them as they were too.
RejectedSiteOpsChangeNothing ==
  [][ /\ ( /\ lastOp'.name = "addSite"
           /\ SiteIndex(sitesConfig, GivenSite(lastOp')) # 0 )
        => (lastOp'.result = "error" /\ sitesConfig' = sitesConfig)
      /\ ( /\ lastOp'.name \in {"selectSite", "removeSite"}
           /\ SiteIndex(sitesConfig, GivenSite(lastOp')) = 0 )
        => (lastOp'.result = "error" /\ sitesConfig' = sitesConfig)
      /\ ( /\ lastOp'.name = "removeSite"
           /\ lastOp'.args[2] # "Yes" )
        => sitesConfig' = sitesConfig
    ]_vars

\* a removal of a registered site, out of several, was answered with No
RemovalDeclined ==
  /\ lastOp.name = "removeSite"
  /\ lastOp.args[2] = "No"
  /\ SiteIndex(sitesConfig, GivenSite(lastOp)) # 0
  /\ Len(sitesConfig.sites) > 1
  /\ sitesConfig.current = GivenSite(lastOp)

(************************ properties of the file watcher *******************)
\* C34: in every state reached by calls of FileWatcher.start and stop,
\* overlapping ones included, isWatching() is true exactly when
\* getActiveSiteId() is not null and at most one underlying watcher is
\* open; a start while watching has closed the previous watcher when it
\* opens the new one; a stop when not watching changes nothing.
WatcherStaysSingle ==
  [][ /\ (fileWatcher'.watcher # <<>>) <=> (fileWatcher'.activeSiteId # NullId)
      /\ Cardinality(chokidar'.open) <= 1
      /\ (chokidar'.made # chokidar.made) => chokidar.open = {}
      /\ (lastOp'.name = "stop" /\ lastOp'.stage = "-" /\ fileWatcher.watcher = <<>>)
           => UNCHANGED << fileWatcher, chokidar >>
    ]_vars

(************************ properties of pull's frame ***********************)
\* the subdirectories and the files without a .js extension of a directory
\* are in it afterwards, as they were
ForeignKept(before, after) ==
  \A n \in DOMAIN before :
    (before[n].kind = "dir" \/ ~EndsWithJs(n)) =>
      (n \in DOMAIN after /\ after[n] = before[n])

StoredConnectionIsReturned ==
  (configOut.given # <<>> /\ configOut.got # <<>>) =>
    /\ Setting(configOut.got[1], "owlanter-domain", "pleasanter-domain")
         = configOut.given[1].domain
    /\ Setting(configOut.got[1], "owlanter-api", "pleasanter-api")
         = configOut.given[1].apiKey
====
